---------------------------- MODULE Spec2Model ----------------------------
(***************************************************************************)
(* A model of the trading monitor: the indicator calculator and the alert  *)
(* rules of utils/calculations, and the multi-asset App component (its     *)
(* state, its refs, its handlers and its two effects).                     *)
(*                                                                         *)
(* Units.  Prices and volumes are integers counted in hundredths (a price  *)
(* of 100.00 is 10000), so "rounded to 2 decimals" is rounding to an       *)
(* integer.  Values the code keeps unrounded (the EMA recurrence, the      *)
(* averages) are exact fractions <<n, d>>; the error of binary floating     *)
(* point is not modelled.  Time is counted in units of 45 seconds.         *)
(*                                                                         *)
(* Scale.  The window sizes of constants.ts (100 candles, EMA 10/20/50,    *)
(* look-backs 20/2/3/10, five assets) are scaled down so that every rule   *)
(* can be exercised inside a window of a few candles; their order is kept: *)
(* FAST < MEDIUM < SLOW <= CHART_DATA_LIMIT, and the three look-backs of   *)
(* the alert rules add up to less than SLOW (15 < 50).                     *)
(***************************************************************************)
EXTENDS Integers, Sequences, FiniteSets, TLC

VARIABLES
    selectedAsset,             \* useState selectedAsset
    selectedTimeframe,         \* useState selectedTimeframe
    allAssetsData,             \* useState: asset -> AssetMonitorState
    alerts,                    \* useState: the alert log
    targetLineValues,          \* useState: asset -> pivot or NULL
    enableSoundAlerts,         \* useState: a notification flag
    enableEarlyPullbackAlerts, \* useState: the early-pullback flag
    marketDataSubscriptions,   \* useRef: asset -> SubscriptionHandle
    activeIntervals,           \* the intervals that are set and not cleared
    previousIndicatorDataRef,  \* useRef: asset -> IndicatorData or NoIndicator
    subscribedHandler,         \* what the handleNewCandle the feed calls closed over
    effectPending,             \* why the subscription effect has to re-run
    tickLeft,                  \* time left until the target-line interval fires
    nextIntervalId,            \* the id the next setInterval of the feed returns
    events,                    \* how many external events have happened
    duplicateDropped,          \* addAlert has found a duplicate and dropped it
    dismissed,                 \* the (type, asset, timestamp) of the alerts dismissed so far
    candleDropped,             \* handleNewCandle has found no state of the asset and returned
    call,                      \* a call of a pure function: its arguments
    ret                        \* and its result

vars == <<selectedAsset, selectedTimeframe, allAssetsData, alerts,
          targetLineValues, enableSoundAlerts, enableEarlyPullbackAlerts,
          marketDataSubscriptions, activeIntervals, previousIndicatorDataRef,
          subscribedHandler, effectPending, tickLeft, nextIntervalId,
          events, duplicateDropped, dismissed, candleDropped, call, ret>>

appVars == <<selectedAsset, selectedTimeframe, allAssetsData, alerts,
             targetLineValues, enableSoundAlerts, enableEarlyPullbackAlerts,
             marketDataSubscriptions, activeIntervals, previousIndicatorDataRef,
             subscribedHandler, effectPending, tickLeft, nextIntervalId,
             events, duplicateDropped, dismissed, candleDropped>>

---------------------------------------------------------------------------
(* Constants (constants.ts), scaled.                                       *)

\* null of "number | null"; every price is >= 0
NULL == -1

EMA_FAST == 1
EMA_MEDIUM == 2
EMA_SLOW == 4
SR_LOOKBACK_PERIOD == 2
PULLBACK_CANDLE_LOOKBACK == 1
STRONG_CANDLE_BODY_LOOKBACK == 1
VOLUME_AVERAGE_PERIOD == 1
CHART_DATA_LIMIT == 4

MOCK_ASSETS == <<"BTCUSD", "ETHUSD">>
Assets == {MOCK_ASSETS[i] : i \in 1..Len(MOCK_ASSETS)}

\* '1m' and '3m' of TIMEFRAME_OPTIONS
Timeframes == {"1m", "3m"}

\* TIMEFRAME_OPTIONS['90s'] = 90 * 1000 ms, in units of 45 s
TARGET_LINE_PERIOD == 2

---------------------------------------------------------------------------
(* Bounds of the exploration.                                              *)

\* external events (candles, ticks, user actions) in one run
MaxEvents == 3
\* longest history and largest period given to a pure function
MaxLen == 4
MaxPeriod == 3
\* largest lookback given to calculateSupportResistance
MaxLookback == 3

---------------------------------------------------------------------------
(* Arithmetic.                                                             *)

Abs(x) == IF x < 0 THEN 0 - x ELSE x

Min(S) == CHOOSE x \in S : \A y \in S : x <= y
Max(S) == CHOOSE x \in S : \A y \in S : x >= y

\* parseFloat((n/d).toFixed(2)) for n >= 0, d > 0, in hundredths: the
\* integer nearest to n/d, the larger one of two equally near
toFixed2(n, d) == (2 * n + d) \div (2 * d)

\* Array.prototype.slice(-k) for k >= 0; slice(-0) is slice(0), the whole
\* array
SliceLast(s, k) ==
    IF k = 0 \/ Len(s) <= k THEN s ELSE SubSeq(s, Len(s) - k + 1, Len(s))

\* Array.prototype.slice(0, -1)
SliceButLast(s) == IF Len(s) = 0 THEN s ELSE SubSeq(s, 1, Len(s) - 1)

RECURSIVE SumSeq(_)
SumSeq(s) == IF Len(s) = 0 THEN 0 ELSE s[1] + SumSeq(Tail(s))

\* the JavaScript test !x of a "number | null"
Falsy(x) == x = NULL \/ x = 0

---------------------------------------------------------------------------
(* utils/calculations: the indicator calculator.                           *)

\* the recurrence on the rounded previous value: the variant C10 must tell
\* apart
RECURSIVE EmaLoopRounded(_, _, _, _)
EmaLoopRounded(data, period, i, emaValues) ==
    IF i > Len(data) THEN emaValues
    ELSE LET previousEMA == emaValues[i - 1]
             rounded == (2 * previousEMA[1] + previousEMA[2]) \div (2 * previousEMA[2])
             next == IF previousEMA # <<>>
                     THEN <<2 * data[i].close + (period - 1) * rounded, period + 1>>
                     ELSE <<>>
         IN  EmaLoopRounded(data, period, i + 1, [emaValues EXCEPT ![i] = next])

\* an EMA value before rounding is a fraction <<n, d>>; <<>> is null
RECURSIVE EmaLoop(_, _, _, _)
EmaLoop(data, period, i, emaValues) ==
    IF i > Len(data) THEN emaValues
    ELSE LET previousEMA == emaValues[i - 1]
             n == previousEMA[1]
             d == previousEMA[2]
             \* (close - prev) * 2/(period + 1) + prev
             next == IF previousEMA # <<>>
                     THEN <<2 * data[i].close * d + (period - 1) * n,
                            d * (period + 1)>>
                     ELSE <<>>
         IN  EmaLoop(data, period, i + 1, [emaValues EXCEPT ![i] = next])

\* calculateEMA that needs more than `period` candles and seeds one index
\* late: the variant C9 must tell apart
calculateEMALate(data, period) ==
    IF Len(data) <= period THEN [i \in 1..Len(data) |-> NULL]
    ELSE LET sum == SumSeq([i \in 1..period |-> data[i + 1].close])
             seeded == [i \in 1..Len(data) |->
                           IF i = period + 1 THEN <<sum, period>> ELSE <<>>]
             emaValues == EmaLoop(data, period, period + 2, seeded)
         IN  [i \in 1..Len(data) |->
                 IF emaValues[i] # <<>>
                 THEN toFixed2(emaValues[i][1], emaValues[i][2])
                 ELSE NULL]

calculateEMA(data, period) ==
    IF Len(data) < period THEN [i \in 1..Len(data) |-> NULL]
    ELSE LET sum == SumSeq([i \in 1..period |-> data[i].close])
             seeded == [i \in 1..Len(data) |->
                           IF i = period THEN <<sum, period>> ELSE <<>>]
             emaValues == EmaLoop(data, period, period + 1, seeded)
         IN  [i \in 1..Len(data) |->
                 IF emaValues[i] # <<>>
                 THEN toFixed2(emaValues[i][1], emaValues[i][2])
                 ELSE NULL]

\* calculateSupportResistance over the first `lookback` candles, slice(0,
\* lookback) for slice(-lookback): the variant C12 must tell apart
calculateSupportResistanceOldest(data, lookback) ==
    IF Len(data) = 0 THEN [support |-> NULL, resistance |-> NULL]
    ELSE LET relevantData == SubSeq(data, 1, IF Len(data) <= lookback
                                             THEN Len(data) ELSE lookback)
             idx == 1..Len(relevantData)
         IN  [support |-> Min({relevantData[i].low : i \in idx}),
              resistance |-> Max({relevantData[i].high : i \in idx})]

calculateSupportResistance(data, lookback) ==
    IF Len(data) = 0 THEN [support |-> NULL, resistance |-> NULL]
    ELSE LET relevantData == SliceLast(data, lookback)
             idx == 1..Len(relevantData)
             support == IF Len(relevantData) > 0
                        THEN Min({relevantData[i].low : i \in idx}) ELSE NULL
             resistance == IF Len(relevantData) > 0
                           THEN Max({relevantData[i].high : i \in idx}) ELSE NULL
         IN  [support |-> IF support # NULL THEN toFixed2(support, 1) ELSE NULL,
              resistance |-> IF resistance # NULL THEN toFixed2(resistance, 1)
                             ELSE NULL]

\* calculateAllIndicators on an indicators array that outlives the call and
\* is not emptied: the variant C11 must tell apart
calculateAllIndicatorsCarried(candles) ==
    LET ema10Values == calculateEMA(candles, EMA_FAST)
        ema20Values == calculateEMA(candles, EMA_MEDIUM)
        ema50Values == calculateEMA(candles, EMA_SLOW)
        carried == IF ret = <<>> THEN <<>> ELSE ret[Len(ret)].indicators
    IN  [indicators |-> carried \o
                        [index \in 1..Len(candles) |->
                            [ema10 |-> ema10Values[index],
                             ema20 |-> ema20Values[index],
                             ema50 |-> ema50Values[index]]],
         supportResistance |->
             calculateSupportResistance(candles, SR_LOOKBACK_PERIOD)]

calculateAllIndicators(candles) ==
    LET ema10Values == calculateEMA(candles, EMA_FAST)
        ema20Values == calculateEMA(candles, EMA_MEDIUM)
        ema50Values == calculateEMA(candles, EMA_SLOW)
    IN  [indicators |-> [index \in 1..Len(candles) |->
                            [ema10 |-> ema10Values[index],
                             ema20 |-> ema20Values[index],
                             ema50 |-> ema50Values[index]]],
         supportResistance |->
             calculateSupportResistance(candles, SR_LOOKBACK_PERIOD)]

---------------------------------------------------------------------------
(* utils/calculations: the pattern detectors.  An average is the fraction  *)
(* <<total, count>>; "x > average * 1.5" is 2 * x * count > 3 * total.     *)

getCandleBodySize(candle) == Abs(candle.close - candle.open)

getAverageBodySize(candles, lookback) ==
    IF Len(candles) < lookback THEN <<0, 1>>
    ELSE LET relevantCandles == SliceLast(candles, lookback)
         IN  <<SumSeq([i \in 1..Len(relevantCandles) |->
                          getCandleBodySize(relevantCandles[i])]),
               Len(relevantCandles)>>

getAverageVolume(candles, lookback) ==
    IF Len(candles) < lookback THEN <<0, 1>>
    ELSE LET relevantCandles == SliceLast(candles, lookback)
         IN  <<SumSeq([i \in 1..Len(relevantCandles) |->
                          relevantCandles[i].volume]),
               Len(relevantCandles)>>

\* isStrongGreenCandle with a factor of 2 for 1.5: the variant C16 must tell
\* apart
isStrongGreenCandleDouble(currentCandle, previousCandles, lookback) ==
    IF Len(previousCandles) < lookback THEN FALSE
    ELSE IF currentCandle.close <= currentCandle.open THEN FALSE
    ELSE LET currentBodySize == getCandleBodySize(currentCandle)
             avgPrevBodySize == getAverageBodySize(previousCandles, lookback)
         IN  currentBodySize * avgPrevBodySize[2] > 2 * avgPrevBodySize[1]

isStrongGreenCandle(currentCandle, previousCandles, lookback) ==
    IF Len(previousCandles) < lookback THEN FALSE
    ELSE IF currentCandle.close <= currentCandle.open THEN FALSE
    ELSE LET currentBodySize == getCandleBodySize(currentCandle)
             avgPrevBodySize == getAverageBodySize(previousCandles, lookback)
         IN  2 * currentBodySize * avgPrevBodySize[2] > 3 * avgPrevBodySize[1]

\* isStrongRedCandle with "at least" for "more than": the variant C24 must
\* tell apart
isStrongRedCandleAtLeast(currentCandle, previousCandles, lookback) ==
    IF Len(previousCandles) < lookback THEN FALSE
    ELSE IF currentCandle.close >= currentCandle.open THEN FALSE
    ELSE LET currentBodySize == getCandleBodySize(currentCandle)
             avgPrevBodySize == getAverageBodySize(previousCandles, lookback)
         IN  2 * currentBodySize * avgPrevBodySize[2] >= 3 * avgPrevBodySize[1]

isStrongRedCandle(currentCandle, previousCandles, lookback) ==
    IF Len(previousCandles) < lookback THEN FALSE
    ELSE IF currentCandle.close >= currentCandle.open THEN FALSE
    ELSE LET currentBodySize == getCandleBodySize(currentCandle)
             avgPrevBodySize == getAverageBodySize(previousCandles, lookback)
         IN  2 * currentBodySize * avgPrevBodySize[2] > 3 * avgPrevBodySize[1]

\* hasBullishPullback and hasBearishPullback read the constant
\* PULLBACK_CANDLE_LOOKBACK of constants.ts; here it is the first argument,
\* so that the detectors can also be called with the value it has there
hasBullishPullbackOver(lookback, currentCandle, previousCandles, currentIndicators, prevIndicators) ==
    IF Len(previousCandles) < lookback THEN FALSE
    ELSE LET prevCandle == previousCandles[Len(previousCandles)]
             ema10 == currentIndicators.ema10
             ema20 == currentIndicators.ema20
             prevEma10 == prevIndicators.ema10
             prevEma20 == prevIndicators.ema20
         IN  IF ema10 = NULL \/ ema20 = NULL \/ prevEma10 = NULL \/ prevEma20 = NULL
             THEN FALSE
             ELSE LET didTouchEma10 ==
                          \/ (prevCandle.low <= ema10 /\ prevCandle.high >= ema10)
                          \/ (prevCandle.low <= prevEma10 /\ prevCandle.high >= prevEma10)
                      didTouchEma20 ==
                          \/ (prevCandle.low <= ema20 /\ prevCandle.high >= ema20)
                          \/ (prevCandle.low <= prevEma20 /\ prevCandle.high >= prevEma20)
                      pullbackOccurred == didTouchEma10 \/ didTouchEma20
                      bounced == currentCandle.close > prevCandle.close
                  IN  pullbackOccurred /\ bounced

hasBullishPullback(currentCandle, previousCandles, currentIndicators, prevIndicators) ==
    hasBullishPullbackOver(PULLBACK_CANDLE_LOOKBACK, currentCandle, previousCandles,
                           currentIndicators, prevIndicators)

\* hasBearishPullback that looks at the EMAs of the current snapshot only:
\* the variant C25 must tell apart
hasBearishPullbackCurrentOnly(lookback, currentCandle, previousCandles, currentIndicators, prevIndicators) ==
    IF Len(previousCandles) < lookback THEN FALSE
    ELSE LET prevCandle == previousCandles[Len(previousCandles)]
             ema10 == currentIndicators.ema10
             ema20 == currentIndicators.ema20
         IN  IF \/ ema10 = NULL \/ ema20 = NULL
                \/ prevIndicators.ema10 = NULL \/ prevIndicators.ema20 = NULL
             THEN FALSE
             ELSE /\ \/ (prevCandle.high >= ema10 /\ prevCandle.low <= ema10)
                     \/ (prevCandle.high >= ema20 /\ prevCandle.low <= ema20)
                  /\ currentCandle.close < prevCandle.close

hasBearishPullbackOver(lookback, currentCandle, previousCandles, currentIndicators, prevIndicators) ==
    IF Len(previousCandles) < lookback THEN FALSE
    ELSE LET prevCandle == previousCandles[Len(previousCandles)]
             ema10 == currentIndicators.ema10
             ema20 == currentIndicators.ema20
             prevEma10 == prevIndicators.ema10
             prevEma20 == prevIndicators.ema20
         IN  IF ema10 = NULL \/ ema20 = NULL \/ prevEma10 = NULL \/ prevEma20 = NULL
             THEN FALSE
             ELSE LET didTouchEma10 ==
                          \/ (prevCandle.high >= ema10 /\ prevCandle.low <= ema10)
                          \/ (prevCandle.high >= prevEma10 /\ prevCandle.low <= prevEma10)
                      didTouchEma20 ==
                          \/ (prevCandle.high >= ema20 /\ prevCandle.low <= ema20)
                          \/ (prevCandle.high >= prevEma20 /\ prevCandle.low <= prevEma20)
                      pullbackOccurred == didTouchEma10 \/ didTouchEma20
                      brokenDown == currentCandle.close < prevCandle.close
                  IN  pullbackOccurred /\ brokenDown

hasBearishPullback(currentCandle, previousCandles, currentIndicators, prevIndicators) ==
    hasBearishPullbackOver(PULLBACK_CANDLE_LOOKBACK, currentCandle, previousCandles,
                           currentIndicators, prevIndicators)

---------------------------------------------------------------------------
(* utils/calculations: the alert rules.  An "Alert | null" is a sequence   *)
(* of no or one alert; an alert's message is fixed by its type and left    *)
(* out; the id `prefix-asset-timestamp` is the triple of its parts.        *)

\* an alert that names the first asset whatever asset it is for: the variant
\* C22 must tell apart
AlertOfFirstAsset(prefix, type, asset, candle) ==
    [id |-> <<prefix, asset, candle.timestamp>>,
     type |-> type,
     timestamp |-> candle.timestamp,
     asset |-> MOCK_ASSETS[1]]

Alert(prefix, type, asset, candle) ==
    [id |-> <<prefix, asset, candle.timestamp>>,
     type |-> type,
     timestamp |-> candle.timestamp,
     asset |-> asset]

\* prevIndicators is a sequence of no (null) or one IndicatorData
checkForBuyCallAlert(asset, currentCandle, previousCandles, currentIndicators, prevIndicators) ==
    LET ema10 == currentIndicators.ema10
        ema20 == currentIndicators.ema20
        ema50 == currentIndicators.ema50
    IN  IF \/ Falsy(ema10) \/ Falsy(ema20) \/ Falsy(ema50)
           \/ Len(previousCandles) < STRONG_CANDLE_BODY_LOOKBACK
                  + PULLBACK_CANDLE_LOOKBACK + VOLUME_AVERAGE_PERIOD
           \/ prevIndicators = <<>>
        THEN <<>>
        ELSE LET ema10AboveEma20 == ema10 > ema20
                 ema20AboveEma50 == ema20 > ema50
                 priceAboveEma50 == currentCandle.close > ema50
                 pullback == hasBullishPullback(currentCandle, previousCandles,
                                                currentIndicators, prevIndicators[1])
                 strongGreenCandle == isStrongGreenCandle(currentCandle, previousCandles,
                                                          STRONG_CANDLE_BODY_LOOKBACK)
                 prevCandle == previousCandles[Len(previousCandles)]
                 closeAbovePrevHigh == currentCandle.close > prevCandle.high
                 currentVolume == currentCandle.volume
                 avgVolume == getAverageVolume(previousCandles, VOLUME_AVERAGE_PERIOD)
                 \* currentVolume > avgVolume * 1.2
                 highVolume == 5 * currentVolume * avgVolume[2] > 6 * avgVolume[1]
             IN  IF /\ ema10AboveEma20 /\ ema20AboveEma50 /\ priceAboveEma50
                    /\ pullback /\ strongGreenCandle /\ closeAbovePrevHigh
                    /\ highVolume
                 THEN <<Alert("buy-call", "BUY_CALL", asset, currentCandle)>>
                 ELSE <<>>

checkForSellPutAlert(asset, currentCandle, previousCandles, currentIndicators, prevIndicators) ==
    LET ema10 == currentIndicators.ema10
        ema20 == currentIndicators.ema20
        ema50 == currentIndicators.ema50
    IN  IF \/ Falsy(ema10) \/ Falsy(ema20) \/ Falsy(ema50)
           \/ Len(previousCandles) < STRONG_CANDLE_BODY_LOOKBACK
                  + PULLBACK_CANDLE_LOOKBACK + VOLUME_AVERAGE_PERIOD
           \/ prevIndicators = <<>>
        THEN <<>>
        ELSE LET ema10BelowEma20 == ema10 < ema20
                 ema20BelowEma50 == ema20 < ema50
                 priceBelowEma50 == currentCandle.close < ema50
                 pullback == hasBearishPullback(currentCandle, previousCandles,
                                                currentIndicators, prevIndicators[1])
                 strongRedCandle == isStrongRedCandle(currentCandle, previousCandles,
                                                      STRONG_CANDLE_BODY_LOOKBACK)
                 prevCandle == previousCandles[Len(previousCandles)]
                 closeBelowPrevLow == currentCandle.close < prevCandle.low
                 currentVolume == currentCandle.volume
                 avgVolume == getAverageVolume(previousCandles, VOLUME_AVERAGE_PERIOD)
                 highVolume == 5 * currentVolume * avgVolume[2] > 6 * avgVolume[1]
             IN  IF /\ ema10BelowEma20 /\ ema20BelowEma50 /\ priceBelowEma50
                    /\ pullback /\ strongRedCandle /\ closeBelowPrevLow
                    /\ highVolume
                 THEN <<Alert("sell-put", "SELL_PUT", asset, currentCandle)>>
                 ELSE <<>>

\* checkForEarlyPullbackAlert without the test of the candle's range: the
\* variant C23 must tell apart
checkForEarlyPullbackAlertAnywhere(asset, currentCandle, currentIndicators) ==
    IF Falsy(currentIndicators.ema20) THEN <<>>
    ELSE <<Alert("early-pullback-ema20", "EARLY_PULLBACK_EMA20", asset, currentCandle)>>

checkForEarlyPullbackAlert(asset, currentCandle, currentIndicators) ==
    LET ema20 == currentIndicators.ema20
    IN  IF Falsy(ema20) THEN <<>>
        ELSE LET bullishTouch == currentCandle.low <= ema20 /\ currentCandle.high >= ema20
                 bearishTouch == currentCandle.high >= ema20 /\ currentCandle.low <= ema20
             IN  IF bullishTouch \/ bearishTouch
                 THEN <<Alert("early-pullback-ema20", "EARLY_PULLBACK_EMA20",
                              asset, currentCandle)>>
                 ELSE <<>>

\* The rule the multi-asset App imports; its code is not among the sources.
\* From the rule table: a target exists, and the candle's body closes
\* through it, upwards with a bullish body or downwards with a bearish one.
checkForTargetLineConfirmationAlert(asset, currentCandle, previousCandles, targetLineValue) ==
    IF targetLineValue = NULL THEN <<>>
    ELSE IF /\ currentCandle.close > currentCandle.open
            /\ currentCandle.open <= targetLineValue
            /\ currentCandle.close > targetLineValue
         THEN <<Alert("target-line-confirmation-bullish",
                      "TARGET_LINE_CONFIRMATION_BULLISH", asset, currentCandle)>>
    ELSE IF /\ currentCandle.close < currentCandle.open
            /\ currentCandle.open >= targetLineValue
            /\ currentCandle.close < targetLineValue
         THEN <<Alert("target-line-confirmation-bearish",
                      "TARGET_LINE_CONFIRMATION_BEARISH", asset, currentCandle)>>
    ELSE <<>>

---------------------------------------------------------------------------
(* services/marketDataService: the feed.  Its code is not among the        *)
(* sources; it hands over a bootstrap history of at most `limit` candles   *)
(* and then calls back with one candle at a time, at times of its own.     *)

Candle(shape, timestamp) ==
    [timestamp |-> timestamp, open |-> shape.open, high |-> shape.high,
     low |-> shape.low, close |-> shape.close, volume |-> shape.volume]

Flat == [open |-> 10000, high |-> 11000, low |-> 9000, close |-> 10000, volume |-> 100]
Up   == [open |-> 10000, high |-> 12001, low |-> 10000, close |-> 12000, volume |-> 200]
Down == [open |-> 10000, high |-> 10000, low |-> 7999, close |-> 8000, volume |-> 200]

CandleShapes == {Flat, Up, Down}

\* getInitialCandleData(asset, limit, timeframeMs): the feed has a full
\* window of the first asset; of any other asset it has no candle yet at
\* '1m' and one candle less than the window at any other timeframe
getInitialCandleData(asset, limit, timeframe) ==
    IF asset = MOCK_ASSETS[1] THEN [i \in 1..limit |-> Candle(Flat, i)]
    ELSE IF timeframe = "1m" THEN <<>>
    ELSE [i \in 1..(limit - 1) |-> Candle(Flat, i)]

LastTimestamp(asset) ==
    IF asset \in DOMAIN allAssetsData /\ Len(allAssetsData[asset].candleData) > 0
    THEN allAssetsData[asset].candleData[Len(allAssetsData[asset].candleData)].timestamp
    ELSE 0

\* the timestamps of the next candle of the feed: the one after the last
\* stored candle, or that of the last stored candle again
FeedTimestamps(asset) ==
    {t \in {LastTimestamp(asset), LastTimestamp(asset) + 1} : t >= 1}

---------------------------------------------------------------------------
(* App: state and handlers.                                                *)

EmptyAssetState ==
    [candleData |-> <<>>, indicatorData |-> <<>>,
     supportResistance |-> [support |-> NULL, resistance |-> NULL]]

\* indicators.length > 0 ? indicators[indicators.length - 1] : null
LastIndicator(indicators) ==
    IF Len(indicators) > 0 THEN <<indicators[Len(indicators)]>> ELSE <<>>

\* addAlert without its isDuplicate test: the variant C1 must tell apart
addAlertNoDedup(prevAlerts, newAlert) == Append(prevAlerts, newAlert)

\* what addAlert compares of two alerts
AlertKeyOf(alert) == <<alert.type, alert.asset, alert.timestamp>>

\* addAlert that also refuses what was dismissed before: the variant C28
\* must tell apart
addAlertRememberingDismissed(prevAlerts, newAlert) ==
    IF \/ AlertKeyOf(newAlert) \in dismissed
       \/ \E i \in 1..Len(prevAlerts) : AlertKeyOf(prevAlerts[i]) = AlertKeyOf(newAlert)
    THEN prevAlerts ELSE Append(prevAlerts, newAlert)

\* the updater of setAlerts in addAlert
addAlert(prevAlerts, newAlert) ==
    LET isDuplicate == \E i \in 1..Len(prevAlerts) :
                           /\ prevAlerts[i].type = newAlert.type
                           /\ prevAlerts[i].timestamp = newAlert.timestamp
                           /\ prevAlerts[i].asset = newAlert.asset
    IN  IF ~isDuplicate THEN Append(prevAlerts, newAlert) ELSE prevAlerts

\* the addAlert calls of one handleNewCandle, in their order
RECURSIVE AddAlerts(_, _)
AddAlerts(prevAlerts, candidates) ==
    IF Len(candidates) = 0 THEN prevAlerts
    ELSE AddAlerts(addAlert(prevAlerts, Head(candidates)), Tail(candidates))

\* the alert candidates of one new candle, in the order of the addAlert calls
AlertCandidates(asset, newCandle, updatedCandleData, currentIndicator, prevIndicator, earlyPullback, currentTargetLineValueForAsset) ==
    LET previousCandles == SliceButLast(updatedCandleData)
    IN  IF currentIndicator # <<>> /\ Len(updatedCandleData) > 1
        THEN (IF prevIndicator # <<>>
              THEN checkForBuyCallAlert(asset, newCandle, previousCandles,
                                        currentIndicator[1], prevIndicator)
                   \o checkForSellPutAlert(asset, newCandle, previousCandles,
                                           currentIndicator[1], prevIndicator)
              ELSE <<>>)
             \o (IF earlyPullback
                 THEN checkForEarlyPullbackAlert(asset, newCandle, currentIndicator[1])
                 ELSE <<>>)
             \o checkForTargetLineConfirmationAlert(asset, newCandle, previousCandles,
                                                    currentTargetLineValueForAsset)
        ELSE <<>>

\* the append with a window one too long: the variant C2 must tell apart
AppendCandleOffByOne(candleData, newCandle) ==
    SliceLast(Append(candleData, newCandle), CHART_DATA_LIMIT + 1)

\* [...candleData, newCandle].slice(-CHART_DATA_LIMIT)
AppendCandle(candleData, newCandle) ==
    SliceLast(Append(candleData, newCandle), CHART_DATA_LIMIT)

\* one snapshot shared by all assets: the variant C4 must tell apart
StorePreviousShared(ref, asset, currentIndicator) ==
    [b \in DOMAIN ref \cup {asset} |-> currentIndicator]

\* { ...previousIndicatorDataRef.current, [asset]: currentIndicator }
StorePrevious(ref, asset, currentIndicator) ==
    [b \in DOMAIN ref \cup {asset} |-> IF b = asset THEN currentIndicator ELSE ref[b]]

\* activeIntervals.feed holds <<asset, intervalId>> of every interval of the
\* feed that is set, activeIntervals.target the number of target-line
\* intervals that are set.

\* the forEach over the handles of the ref that keeps them all subscribed:
\* the variant C26 must tell apart
UnsubscribeNone(feed, subscriptions) == feed

\* Object.values(marketDataSubscriptions.current).forEach(sub =>
\* unsubscribeFromMarketData(sub)): the intervals of the handles are cleared
UnsubscribeAll(feed, subscriptions) ==
    {sub \in feed : \A asset \in DOMAIN subscriptions :
                        subscriptions[asset].intervalId # sub[2]}

\* the target-line effect runs again: the cleanup of its last run clears the
\* interval that run had set, and a new one is set
ReplaceTargetTimer(active) ==
    [active EXCEPT !.target = (IF @ > 0 THEN @ - 1 ELSE 0) + 1]

\* prevAllAssetsData[asset] that starts an asset without state from an empty
\* one: the variant C29 must tell apart
currentAssetDataOrEmpty(prevAllAssetsData, asset) ==
    IF asset \in DOMAIN prevAllAssetsData
    THEN <<prevAllAssetsData[asset]>> ELSE <<EmptyAssetState>>

\* const currentAssetData = prevAllAssetsData[asset]: the state of the asset,
\* or nothing (undefined) when the map has no entry for it
currentAssetDataOf(prevAllAssetsData, asset) ==
    IF asset \in DOMAIN prevAllAssetsData THEN <<prevAllAssetsData[asset]>> ELSE <<>>

\* The callback of the feed.  It runs the handleNewCandle the subscription
\* was created with (subscribedHandler), on the state and the refs of now.
handleNewCandle(asset, newCandle) ==
    /\ events < MaxEvents
    /\ \E sub \in activeIntervals.feed : sub[1] = asset
    /\ events' = events + 1
    /\ UNCHANGED <<selectedAsset, selectedTimeframe, targetLineValues,
                   enableSoundAlerts, enableEarlyPullbackAlerts,
                   marketDataSubscriptions, subscribedHandler, effectPending,
                   nextIntervalId, call, ret>>
    /\ IF currentAssetDataOf(allAssetsData, asset) = <<>>
       THEN /\ candleDropped' = TRUE
            /\ UNCHANGED <<allAssetsData, alerts, previousIndicatorDataRef, tickLeft,
                           duplicateDropped, dismissed, activeIntervals>>
       ELSE LET currentAssetData == currentAssetDataOf(allAssetsData, asset)[1]
                updatedCandleData == AppendCandle(currentAssetData.candleData, newCandle)
                calc == calculateAllIndicators(updatedCandleData)
                currentIndicator == LastIndicator(calc.indicators)
                prevIndicator == IF asset \in DOMAIN previousIndicatorDataRef
                                 THEN previousIndicatorDataRef[asset] ELSE <<>>
                currentTargetLineValueForAsset ==
                    IF asset \in DOMAIN subscribedHandler.targetLineValues
                    THEN subscribedHandler.targetLineValues[asset] ELSE NULL
                candidates == AlertCandidates(asset, newCandle, updatedCandleData,
                                  currentIndicator, prevIndicator,
                                  subscribedHandler.enableEarlyPullbackAlerts,
                                  currentTargetLineValueForAsset)
            IN  /\ alerts' = AddAlerts(alerts, candidates)
                /\ activeIntervals' = ReplaceTargetTimer(activeIntervals)
                /\ UNCHANGED <<dismissed, candleDropped>>
                /\ duplicateDropped' =
                       (duplicateDropped \/ Len(alerts') < Len(alerts) + Len(candidates))
                /\ previousIndicatorDataRef' =
                       StorePrevious(previousIndicatorDataRef, asset, currentIndicator)
                /\ allAssetsData' =
                       [b \in DOMAIN allAssetsData \cup {asset} |->
                           IF b = asset
                           THEN [candleData |-> updatedCandleData,
                                 indicatorData |-> calc.indicators,
                                 supportResistance |-> calc.supportResistance]
                           ELSE allAssetsData[b]]
                \* allAssetsData is a new object: the target-line effect runs
                \* again, clears its interval and starts a new one
                /\ tickLeft' = TARGET_LINE_PERIOD

handleSelectAsset(asset) ==
    /\ events < MaxEvents
    /\ events' = events + 1
    /\ selectedAsset' = asset
    \* selectedAsset is a dependency of the subscription effect
    /\ effectPending' = IF asset # selectedAsset
                        THEN effectPending \cup {"selectedAsset"} ELSE effectPending
    /\ UNCHANGED <<selectedTimeframe, allAssetsData, alerts, targetLineValues,
                   enableSoundAlerts, enableEarlyPullbackAlerts,
                   marketDataSubscriptions, activeIntervals, previousIndicatorDataRef,
                   subscribedHandler, tickLeft, nextIntervalId, duplicateDropped, dismissed, candleDropped,
                   call, ret>>

\* handleSelectTimeframe without setAllAssetsData({}) and without the reset
\* of the ref: the variant C19 must tell apart
handleSelectTimeframeKeepsData(timeframe) ==
    /\ events < MaxEvents
    /\ events' = events + 1
    /\ selectedTimeframe' = timeframe
    /\ alerts' = <<>>
    /\ targetLineValues' = <<>>
    /\ tickLeft' = TARGET_LINE_PERIOD
    /\ activeIntervals' = ReplaceTargetTimer(activeIntervals)
    /\ effectPending' = effectPending \cup {"selectedTimeframe"}
    /\ UNCHANGED <<selectedAsset, allAssetsData, previousIndicatorDataRef,
                   enableSoundAlerts, enableEarlyPullbackAlerts,
                   marketDataSubscriptions, subscribedHandler, nextIntervalId,
                   duplicateDropped, dismissed, candleDropped, call, ret>>

handleSelectTimeframe(timeframe) ==
    /\ events < MaxEvents
    /\ events' = events + 1
    /\ selectedTimeframe' = timeframe
    /\ allAssetsData' = <<>>
    /\ alerts' = <<>>
    /\ previousIndicatorDataRef' = <<>>
    /\ targetLineValues' = <<>>
    /\ tickLeft' = TARGET_LINE_PERIOD
    /\ activeIntervals' = ReplaceTargetTimer(activeIntervals)
    /\ effectPending' = effectPending \cup {"selectedTimeframe"}
    /\ UNCHANGED <<selectedAsset, enableSoundAlerts, enableEarlyPullbackAlerts,
                   marketDataSubscriptions, subscribedHandler, nextIntervalId,
                   duplicateDropped, dismissed, candleDropped, call, ret>>

\* dismissAlert matching on the asset and timestamp of the id instead of the
\* whole id: the variant C17 must tell apart
dismissAlertOfCandle(id) ==
    /\ events < MaxEvents
    /\ events' = events + 1
    /\ alerts' = SelectSeq(alerts, LAMBDA alert : alert.id[2] # id[2] \/ alert.id[3] # id[3])
    /\ dismissed' = dismissed \cup {AlertKeyOf(alerts[i]) : i \in {j \in 1..Len(alerts) : \A k \in 1..Len(alerts') : alerts'[k] # alerts[j]}}
    /\ UNCHANGED <<selectedAsset, selectedTimeframe, allAssetsData, targetLineValues,
                   enableSoundAlerts, enableEarlyPullbackAlerts,
                   marketDataSubscriptions, activeIntervals, previousIndicatorDataRef,
                   subscribedHandler, effectPending, tickLeft, nextIntervalId,
                   duplicateDropped, candleDropped, call, ret>>

dismissAlert(id) ==
    /\ events < MaxEvents
    /\ events' = events + 1
    /\ alerts' = SelectSeq(alerts, LAMBDA alert : alert.id # id)
    /\ dismissed' = dismissed \cup {AlertKeyOf(alerts[i]) : i \in {j \in 1..Len(alerts) : \A k \in 1..Len(alerts') : alerts'[k] # alerts[j]}}
    /\ UNCHANGED <<selectedAsset, selectedTimeframe, allAssetsData, targetLineValues,
                   enableSoundAlerts, enableEarlyPullbackAlerts,
                   marketDataSubscriptions, activeIntervals, previousIndicatorDataRef,
                   subscribedHandler, effectPending, tickLeft, nextIntervalId,
                   duplicateDropped, candleDropped, call, ret>>

\* the ids a dismissal is tried with: those of the log, and one that is absent
DismissIds == {alerts[i].id : i \in 1..Len(alerts)} \cup {<<"buy-call", MOCK_ASSETS[1], 0>>}

\* onToggleEarlyPullbackAlerts(e.target.checked); handleNewCandle depends on
\* the flag, and the subscription effect on handleNewCandle
setEnableEarlyPullbackAlerts(enabled) ==
    /\ events < MaxEvents
    /\ events' = events + 1
    /\ enableEarlyPullbackAlerts' = enabled
    /\ effectPending' = IF enabled # enableEarlyPullbackAlerts
                        THEN effectPending \cup {"settings"} ELSE effectPending
    /\ UNCHANGED <<selectedAsset, selectedTimeframe, allAssetsData, alerts,
                   targetLineValues, enableSoundAlerts, marketDataSubscriptions, activeIntervals,
                   previousIndicatorDataRef, subscribedHandler, tickLeft,
                   nextIntervalId, duplicateDropped, dismissed, candleDropped, call, ret>>

\* onToggleSoundAlerts(e.target.checked); triggerAlertNotifications depends on
\* the flag, addAlert on it, handleNewCandle on addAlert
setEnableSoundAlerts(enabled) ==
    /\ events < MaxEvents
    /\ events' = events + 1
    /\ enableSoundAlerts' = enabled
    /\ effectPending' = IF enabled # enableSoundAlerts
                        THEN effectPending \cup {"settings"} ELSE effectPending
    /\ UNCHANGED <<selectedAsset, selectedTimeframe, allAssetsData, alerts,
                   targetLineValues, enableEarlyPullbackAlerts,
                   marketDataSubscriptions, activeIntervals, previousIndicatorDataRef,
                   subscribedHandler, tickLeft, nextIntervalId, duplicateDropped, dismissed, candleDropped,
                   call, ret>>

---------------------------------------------------------------------------
(* App: the two effects.                                                   *)

\* the pivot cut off after two decimals: the variant C8 must tell apart
PivotTruncated(latestCandle) ==
    (latestCandle.high + latestCandle.low + latestCandle.close) \div 3

\* (high + low + close) / 3 of the latest candle, toFixed(2)
Pivot(latestCandle) ==
    toFixed2(latestCandle.high + latestCandle.low + latestCandle.close, 3)

\* the targets the interval callback computes from allAssetsData
NewTargets(prevTargets) ==
    [asset \in DOMAIN prevTargets \cup Assets |->
        IF asset \in Assets
        THEN IF asset \in DOMAIN allAssetsData
                /\ Len(allAssetsData[asset].candleData) > 0
             THEN Pivot(allAssetsData[asset].candleData[
                            Len(allAssetsData[asset].candleData)])
             ELSE NULL
        ELSE prevTargets[asset]]

\* The callback of the target-line interval.  targetLineValues is a new
\* object, handleNewCandle depends on it and the subscription effect on
\* handleNewCandle.
TargetLineTick ==
    /\ events < MaxEvents
    /\ activeIntervals.target > 0
    /\ tickLeft = 0
    /\ events' = events + 1
    /\ targetLineValues' = NewTargets(targetLineValues)
    /\ tickLeft' = TARGET_LINE_PERIOD
    /\ effectPending' = effectPending \cup {"targetLineValues"}
    /\ UNCHANGED <<selectedAsset, selectedTimeframe, allAssetsData, alerts,
                   enableSoundAlerts, enableEarlyPullbackAlerts,
                   marketDataSubscriptions, activeIntervals, previousIndicatorDataRef,
                   subscribedHandler, nextIntervalId, duplicateDropped, dismissed, candleDropped, call, ret>>

\* One unit of time passes.  A pending effect runs before any time passes.
TimePasses ==
    /\ effectPending = {}
    /\ tickLeft > 0
    /\ tickLeft' = tickLeft - 1
    /\ UNCHANGED <<selectedAsset, selectedTimeframe, allAssetsData, alerts,
                   targetLineValues, enableSoundAlerts, enableEarlyPullbackAlerts,
                   marketDataSubscriptions, activeIntervals, previousIndicatorDataRef,
                   subscribedHandler, effectPending, nextIntervalId, events,
                   duplicateDropped, dismissed, candleDropped, call, ret>>

AssetIndex(asset) == CHOOSE i \in 1..Len(MOCK_ASSETS) : MOCK_ASSETS[i] = asset

\* the AssetMonitorState the effect builds from a bootstrap history
BootstrapState(initialCandles) ==
    LET calc == calculateAllIndicators(initialCandles)
    IN  [candleData |-> initialCandles,
         indicatorData |-> calc.indicators,
         supportResistance |-> calc.supportResistance]

\* The market-data effect: it unsubscribes every subscription, fetches a
\* bootstrap history of every asset, subscribes again with the
\* handleNewCandle of this render, and replaces allAssetsData and the ref.
SubscriptionEffect ==
    /\ effectPending # {}
    /\ LET initial == [asset \in Assets |->
                           getInitialCandleData(asset, CHART_DATA_LIMIT,
                                                selectedTimeframe)]
       IN  /\ allAssetsData' = [asset \in Assets |-> BootstrapState(initial[asset])]
           /\ previousIndicatorDataRef' =
                  [asset \in Assets |->
                      LastIndicator(BootstrapState(initial[asset]).indicatorData)]
    /\ marketDataSubscriptions' =
           [asset \in Assets |-> [intervalId |-> nextIntervalId + AssetIndex(asset) - 1]]
    /\ nextIntervalId' = nextIntervalId + Len(MOCK_ASSETS)
    /\ activeIntervals' =
           ReplaceTargetTimer(
               [activeIntervals EXCEPT !.feed =
                   UnsubscribeAll(@, marketDataSubscriptions)
                       \cup {<<asset, nextIntervalId + AssetIndex(asset) - 1>> :
                                asset \in Assets}])
    /\ subscribedHandler' =
           [enableEarlyPullbackAlerts |-> enableEarlyPullbackAlerts,
            targetLineValues |-> targetLineValues]
    /\ tickLeft' = TARGET_LINE_PERIOD
    /\ effectPending' = {}
    /\ UNCHANGED <<selectedAsset, selectedTimeframe, alerts, targetLineValues,
                   enableSoundAlerts, enableEarlyPullbackAlerts, events,
                   duplicateDropped, dismissed, candleDropped, call, ret>>

---------------------------------------------------------------------------
(* The monitor.                                                            *)

Init ==
    /\ selectedAsset = MOCK_ASSETS[1]
    /\ selectedTimeframe = "1m"
    /\ allAssetsData = [asset \in Assets |-> EmptyAssetState]
    /\ alerts = <<>>
    /\ targetLineValues = [asset \in Assets |-> NULL]
    /\ enableSoundAlerts = FALSE
    /\ enableEarlyPullbackAlerts = FALSE
    /\ marketDataSubscriptions = <<>>
    /\ activeIntervals = [feed |-> {}, target |-> 0]
    /\ previousIndicatorDataRef = <<>>
    /\ subscribedHandler = [enableEarlyPullbackAlerts |-> FALSE,
                            targetLineValues |-> [asset \in Assets |-> NULL]]
    /\ effectPending = {"mount"}
    /\ tickLeft = TARGET_LINE_PERIOD
    /\ nextIntervalId = 1
    /\ events = 0
    /\ duplicateDropped = FALSE
    /\ dismissed = {}
    /\ candleDropped = FALSE
    /\ call = <<>>
    /\ ret = <<>>

Next ==
    \/ \E asset \in Assets : \E shape \in CandleShapes :
           \E timestamp \in FeedTimestamps(asset) :
               handleNewCandle(asset, Candle(shape, timestamp))
    \/ \E asset \in Assets : handleSelectAsset(asset)
    \/ \E timeframe \in Timeframes : handleSelectTimeframe(timeframe)
    \/ \E id \in DismissIds : dismissAlert(id)
    \/ setEnableEarlyPullbackAlerts(~enableEarlyPullbackAlerts)
    \/ setEnableSoundAlerts(~enableSoundAlerts)
    \/ TargetLineTick
    \/ TimePasses
    \/ SubscriptionEffect

Spec == Init /\ [][Next]_vars

---------------------------------------------------------------------------
(* calculateEMA on its own: a call with a history and a period.            *)

EmaCloses == {8000, 10000, 10001}

CloseCandle(close, timestamp) ==
    [timestamp |-> timestamp, open |-> close, high |-> close, low |-> close,
     close |-> close, volume |-> 0]

RECURSIVE Histories(_)
Histories(n) ==
    IF n = 0 THEN {<<>>}
    ELSE Histories(n - 1) \cup
         {Append(h, CloseCandle(c, Len(h) + 1)) :
              h \in {g \in Histories(n - 1) : Len(g) = n - 1}, c \in EmaCloses}

InitEMA ==
    /\ selectedAsset = MOCK_ASSETS[1]
    /\ selectedTimeframe = "1m"
    /\ allAssetsData = [asset \in Assets |-> EmptyAssetState]
    /\ alerts = <<>>
    /\ targetLineValues = [asset \in Assets |-> NULL]
    /\ enableSoundAlerts = FALSE
    /\ enableEarlyPullbackAlerts = FALSE
    /\ marketDataSubscriptions = <<>>
    /\ activeIntervals = [feed |-> {}, target |-> 0]
    /\ previousIndicatorDataRef = <<>>
    /\ subscribedHandler = [enableEarlyPullbackAlerts |-> FALSE,
                            targetLineValues |-> [asset \in Assets |-> NULL]]
    /\ effectPending = {"mount"}
    /\ tickLeft = TARGET_LINE_PERIOD
    /\ nextIntervalId = 1
    /\ events = 0
    /\ duplicateDropped = FALSE
    /\ dismissed = {}
    /\ candleDropped = FALSE
    /\ call \in [op : {"calculateEMA"}, data : Histories(MaxLen), period : 1..MaxPeriod]
    /\ ret = <<>>

CallCalculateEMA ==
    /\ call.op = "calculateEMA"
    /\ ret = <<>>
    /\ ret' = <<calculateEMA(call.data, call.period)>>
    /\ UNCHANGED <<appVars, call>>

NextEMA == CallCalculateEMA

SpecEMA == InitEMA /\ [][NextEMA]_vars

---------------------------------------------------------------------------
(* Properties.                                                             *)

IsPrefix(s, t) == Len(s) <= Len(t) /\ SubSeq(t, 1, Len(s)) = s

AlertKey(alert) == <<alert.type, alert.asset, alert.timestamp>>

AlertKeys(log) == {AlertKey(log[i]) : i \in 1..Len(log)}

\* a step is the feed's callback for `asset` with `newCandle`
CandleEvent(asset) ==
    \E shape \in CandleShapes : \E timestamp \in FeedTimestamps(asset) :
        handleNewCandle(asset, Candle(shape, timestamp))

AlertsUnique ==
    \A i, j \in 1..Len(alerts) :
        i # j => AlertKey(alerts[i]) # AlertKey(alerts[j])

\* a new-candle event keeps every entry of the log where it is and appends
\* only alerts whose (type, asset, timestamp) the log did not hold
OnlyNewKeysAppended ==
    \A asset \in Assets :
        CandleEvent(asset) =>
            /\ IsPrefix(alerts, alerts')
            /\ \A k \in (Len(alerts) + 1)..Len(alerts') :
                   AlertKey(alerts'[k]) \notin AlertKeys(alerts)

\* C1: no two alerts of the log share (type, asset, timestamp) in any
\* reachable state, and a new-candle event leaves the entries of the log as
\* they are and appends no alert whose (type, asset, timestamp) is already
\* in the log, so a candidate submitted twice is in the log once.
C1_AlertLogDeduplicated == []AlertsUnique /\ [][OnlyNewKeysAppended]_vars

\* C1 witness: addAlert was given a candidate whose key was in the log,
\* and the log holds alerts.
C1_DuplicateWasSubmitted == duplicateDropped /\ Len(alerts) >= 1

HistoryBounded ==
    \A asset \in DOMAIN allAssetsData :
        Len(allAssetsData[asset].candleData) <= CHART_DATA_LIMIT

\* a new candle is appended; a full history loses its oldest candle only
AppendEvictsOldest ==
    \A asset \in Assets : \A shape \in CandleShapes :
        \A timestamp \in FeedTimestamps(asset) :
            (handleNewCandle(asset, Candle(shape, timestamp))
                 /\ asset \in DOMAIN allAssetsData) =>
                LET old == allAssetsData[asset].candleData
                    new == allAssetsData'[asset].candleData
                IN  IF Len(old) = CHART_DATA_LIMIT
                    THEN /\ Len(new) = CHART_DATA_LIMIT
                         /\ new = Tail(old) \o <<Candle(shape, timestamp)>>
                    ELSE new = old \o <<Candle(shape, timestamp)>>

\* C2: every candle history has at most CHART_DATA_LIMIT entries, and a
\* new candle appended to a history of CHART_DATA_LIMIT entries gives
\* CHART_DATA_LIMIT entries: the old ones without the oldest, in their
\* order, followed by the new candle.
C2_HistoryBoundedOldestEvicted == []HistoryBounded /\ [][AppendEvictsOldest]_vars

\* C2 witness: a full history whose oldest bootstrap candle (timestamp 1)
\* has been evicted by a new candle.
C2_OldestWasEvicted ==
    \E asset \in DOMAIN allAssetsData :
        /\ Len(allAssetsData[asset].candleData) = CHART_DATA_LIMIT
        /\ allAssetsData[asset].candleData[1].timestamp >= 2

HistoriesStrictlyIncreasing ==
    \A asset \in DOMAIN allAssetsData :
        \A i, j \in 1..Len(allAssetsData[asset].candleData) :
            i < j => allAssetsData[asset].candleData[i].timestamp
                         < allAssetsData[asset].candleData[j].timestamp

OutOfOrderCandleRejected ==
    \A asset \in Assets : \A shape \in CandleShapes :
        \A timestamp \in FeedTimestamps(asset) :
            (handleNewCandle(asset, Candle(shape, timestamp))
                 /\ timestamp <= LastTimestamp(asset)) =>
                UNCHANGED <<allAssetsData, previousIndicatorDataRef, alerts>>

\* C3: a new candle whose timestamp is not after the last stored timestamp
\* of its asset changes neither the histories and indicator series, nor the
\* previous snapshots, nor the alert log, and every stored history has
\* strictly increasing timestamps.
C3_OutOfOrderCandleRejected ==
    []HistoriesStrictlyIncreasing /\ [][OutOfOrderCandleRejected]_vars

OnlyOwnSliceChanges ==
    \A asset \in Assets :
        CandleEvent(asset) =>
            /\ DOMAIN allAssetsData' = DOMAIN allAssetsData
            /\ \A other \in DOMAIN allAssetsData \ {asset} :
                   allAssetsData'[other] = allAssetsData[other]
            /\ DOMAIN previousIndicatorDataRef' \subseteq
                   DOMAIN previousIndicatorDataRef \cup {asset}
            /\ \A other \in DOMAIN previousIndicatorDataRef \ {asset} :
                   /\ other \in DOMAIN previousIndicatorDataRef'
                   /\ previousIndicatorDataRef'[other] = previousIndicatorDataRef[other]
            /\ targetLineValues' = targetLineValues
            /\ IsPrefix(alerts, alerts')
            /\ \A k \in (Len(alerts) + 1)..Len(alerts') : alerts'[k].asset = asset

\* C4: a new-candle event of an asset leaves the history, the indicator
\* series, the support/resistance pair and the previous snapshot of every
\* other asset as they were, and every alert it adds is of its asset.
C4_NewCandleChangesOwnSliceOnly == [][OnlyOwnSliceChanges]_vars

\* C4 witness: the first asset has taken a new candle that raised an alert,
\* every alert is its own, and the other asset is as bootstrapped.
C4_OneAssetAdvanced ==
    /\ MOCK_ASSETS[1] \in DOMAIN allAssetsData
    /\ MOCK_ASSETS[2] \in DOMAIN allAssetsData
    /\ Len(allAssetsData[MOCK_ASSETS[1]].candleData) = CHART_DATA_LIMIT
    /\ allAssetsData[MOCK_ASSETS[1]].candleData[1].timestamp >= 2
    /\ allAssetsData[MOCK_ASSETS[2]] = EmptyAssetState
    /\ Len(alerts) >= 1
    /\ \A i \in 1..Len(alerts) : alerts[i].asset = MOCK_ASSETS[1]

\* C5: the target-line interval runs on its own period whatever the feed
\* does: a new-candle event neither postpones nor cancels the pending tick,
\* the time left until the tick is after the event what it was before.
C5_CandleNeverPostponesTick ==
    [][\A asset \in Assets : CandleEvent(asset) => tickLeft' = tickLeft]_vars

\* the subscription effect runs and `cause` is all that made it run
EffectTriggeredBy(cause) == effectPending = {cause} /\ SubscriptionEffect

\* C6: a target-line tick and the effect run it triggers leave the candle
\* histories, indicator series and support/resistance pairs, the previous
\* snapshots, the feed subscriptions and the alert log as they were.
C6_TickOnlyReadsAssetState ==
    [][(TargetLineTick \/ EffectTriggeredBy("targetLineValues")) =>
           UNCHANGED <<allAssetsData, previousIndicatorDataRef,
                       marketDataSubscriptions, alerts>>]_vars

SettingsToggle ==
    \E enabled \in BOOLEAN :
        setEnableEarlyPullbackAlerts(enabled) \/ setEnableSoundAlerts(enabled)

\* C7: toggling a settings flag, and the effect run the toggle triggers,
\* leave the candle histories, indicator series, previous snapshots, feed
\* subscriptions, pivot levels and the alert log as they were.
C7_ToggleChangesNoEngineState ==
    [][(SettingsToggle \/ EffectTriggeredBy("settings")) =>
           UNCHANGED <<allAssetsData, previousIndicatorDataRef,
                       marketDataSubscriptions, targetLineValues, alerts>>]_vars

\* on a tick every asset gets the third of high + low + close of its latest
\* candle, to the nearest hundredth, or null when it has no candle
TickSetsPivots ==
    TargetLineTick =>
        \A asset \in Assets :
            IF asset \in DOMAIN allAssetsData
               /\ Len(allAssetsData[asset].candleData) > 0
            THEN LET latest == allAssetsData[asset].candleData[
                                   Len(allAssetsData[asset].candleData)]
                     sum    == latest.high + latest.low + latest.close
                     pivot  == targetLineValues'[asset]
                 IN  /\ pivot # NULL
                     /\ Abs(3 * pivot - sum) <= 1
                     /\ (latest.high = 11000 /\ latest.low = 9000
                             /\ latest.close = 10000) => pivot = 10000
            ELSE targetLineValues'[asset] = NULL

\* C8: a target-line tick sets the pivot of every monitored asset with a
\* non-empty history to (high + low + close) / 3 of its latest candle rounded
\* to two decimals (high 110, low 90, close 100 give 100.00) and the pivot
\* of every asset with an empty history to null.
C8_TickSetsPivotOfLatestCandle == [][TickSetsPivots]_vars

\* C8 witness: a tick has just set the pivot of the first asset, whose latest
\* candle has high 110, low 90, close 100, to 100.00, and that of the
\* second, which has no candle, to null.
C8_PivotsSetByTick ==
    /\ "targetLineValues" \in effectPending
    /\ Assets \subseteq DOMAIN allAssetsData
    /\ Len(allAssetsData[MOCK_ASSETS[1]].candleData) > 0
    /\ LET latest == allAssetsData[MOCK_ASSETS[1]].candleData[
                         Len(allAssetsData[MOCK_ASSETS[1]].candleData)]
       IN  latest.high = 11000 /\ latest.low = 9000 /\ latest.close = 10000
    /\ targetLineValues[MOCK_ASSETS[1]] = 10000
    /\ allAssetsData[MOCK_ASSETS[2]].candleData = <<>>
    /\ targetLineValues[MOCK_ASSETS[2]] = NULL

\* C9: calculateEMA returns a series as long as the history; all of its
\* entries are null when the history is shorter than the period; otherwise
\* the entries before the period-th are null and every entry from the
\* period-th on is a number.
C9_EmaNullBeforePeriod ==
    (ret # <<>> /\ call.op = "calculateEMA") =>
        LET out == ret[1]
        IN  /\ Len(out) = Len(call.data)
            /\ Len(call.data) < call.period =>
                   \A i \in 1..Len(out) : out[i] = NULL
            /\ Len(call.data) >= call.period =>
                   \A i \in 1..Len(out) : (out[i] = NULL) <=> (i < call.period)

\* C9 witness: calculateEMA has returned for a history longer than a period
\* of at least 2, so the series has null and defined entries.
C9_EmaOfLongerHistory ==
    /\ ret # <<>>
    /\ call.op = "calculateEMA"
    /\ call.period >= 2
    /\ Len(call.data) > call.period

\* the EMA of the specification, exactly, as a fraction <<n, d>>: the average
\* of the first P closes at P and (close[i] - ema[i-1]) * 2/(P+1) + ema[i-1]
\* after it
RECURSIVE ExactEMA(_, _, _)
ExactEMA(data, P, i) ==
    IF i = P THEN <<SumSeq([k \in 1..P |-> data[k].close]), P>>
    ELSE LET prev == ExactEMA(data, P, i - 1)
         IN  <<(data[i].close * prev[2] - prev[1]) * 2 + prev[1] * (P + 1),
               prev[2] * (P + 1)>>

\* C10: for a history of at least P candles every entry of calculateEMA from
\* the P-th on is the exact EMA (seeded with the average of the first P
\* closes, continued on the unrounded previous value) rounded to the nearest
\* hundredth: rounding is applied to the results only.
C10_EmaRoundedOnceAtEnd ==
    (ret # <<>> /\ call.op = "calculateEMA" /\ Len(call.data) >= call.period) =>
        \A i \in call.period..Len(call.data) :
            LET exact == ExactEMA(call.data, call.period, i)
            IN  2 * Abs(ret[1][i] * exact[2] - exact[1]) <= exact[2]

\* C10 witness: calculateEMA has returned for a history two candles longer
\* than the period whose exact seed is not a whole number of hundredths.
C10_EmaOfFractionalSeed ==
    /\ ret # <<>>
    /\ call.op = "calculateEMA"
    /\ Len(call.data) >= call.period + 2
    /\ SumSeq([k \in 1..call.period |-> call.data[k].close]) % call.period # 0

---------------------------------------------------------------------------
(* calculateAllIndicators called twice on one history.                     *)

\* the App before its first effect, for the runs of single functions
IdleApp ==
    /\ selectedAsset = MOCK_ASSETS[1]
    /\ selectedTimeframe = "1m"
    /\ allAssetsData = [asset \in Assets |-> EmptyAssetState]
    /\ alerts = <<>>
    /\ targetLineValues = [asset \in Assets |-> NULL]
    /\ enableSoundAlerts = FALSE
    /\ enableEarlyPullbackAlerts = FALSE
    /\ marketDataSubscriptions = <<>>
    /\ activeIntervals = [feed |-> {}, target |-> 0]
    /\ previousIndicatorDataRef = <<>>
    /\ subscribedHandler = [enableEarlyPullbackAlerts |-> FALSE,
                            targetLineValues |-> [asset \in Assets |-> NULL]]
    /\ effectPending = {"mount"}
    /\ tickLeft = TARGET_LINE_PERIOD
    /\ nextIntervalId = 1
    /\ events = 0
    /\ duplicateDropped = FALSE
    /\ dismissed = {}
    /\ candleDropped = FALSE

\* every history of at most n candles of the given shapes, timestamps 1, 2, ..
RECURSIVE CandleHistories(_, _)
CandleHistories(shapes, n) ==
    IF n = 0 THEN {<<>>}
    ELSE CandleHistories(shapes, n - 1) \cup
         {Append(h, Candle(shape, Len(h) + 1)) :
              h \in {g \in CandleHistories(shapes, n - 1) : Len(g) = n - 1},
              shape \in shapes}

InitIndicators ==
    /\ IdleApp
    /\ call \in [op : {"calculateAllIndicators"},
                 candles : CandleHistories(CandleShapes, MaxLen)]
    /\ ret = <<>>

\* one call; the function reads `candles` through map and slice and assigns
\* to nothing outside its locals
CallCalculateAllIndicators ==
    /\ call.op = "calculateAllIndicators"
    /\ Len(ret) < 2
    /\ ret' = Append(ret, calculateAllIndicators(call.candles))
    /\ UNCHANGED <<appVars, call>>

NextIndicators == CallCalculateAllIndicators

SpecIndicators == InitIndicators /\ [][NextIndicators]_vars

SecondCallEqualsFirst ==
    (call.op = "calculateAllIndicators" /\ Len(ret) = 2) => ret[1] = ret[2]

---------------------------------------------------------------------------
(* calculateSupportResistance on a history and a lookback.                 *)

\* candles with low/high 10/20, 5/25 and 8/18
Wide10to20 == [open |-> 1500, high |-> 2000, low |-> 1000, close |-> 1500, volume |-> 100]
Wide5to25 == [open |-> 1500, high |-> 2500, low |-> 500, close |-> 1500, volume |-> 100]
Wide8to18 == [open |-> 1500, high |-> 1800, low |-> 800, close |-> 1500, volume |-> 100]

RangeShapes == {Wide10to20, Wide5to25, Wide8to18}

InitSR ==
    /\ IdleApp
    /\ call \in [op : {"calculateSupportResistance"},
                 data : CandleHistories(RangeShapes, MaxLen),
                 lookback : 1..MaxLookback]
    /\ ret = <<>>

CallCalculateSupportResistance ==
    /\ call.op = "calculateSupportResistance"
    /\ ret = <<>>
    /\ ret' = <<calculateSupportResistance(call.data, call.lookback)>>
    /\ UNCHANGED <<appVars, call>>

NextSR == CallCalculateSupportResistance

SpecSR == InitSR /\ [][NextSR]_vars

\* C12: calculateSupportResistance returns the least low as support and the
\* greatest high as resistance of the last min(lookback, length) candles,
\* in hundredths; both are null exactly when the history is empty; lows and
\* highs (10,20), (5,25), (8,18) with lookback 3 give support 5 and
\* resistance 25.
C12_SupportResistanceOfTrailingWindow ==
    (ret # <<>> /\ call.op = "calculateSupportResistance") =>
        LET out == ret[1]
            n == Len(call.data)
            k == IF call.lookback < n THEN call.lookback ELSE n
            window == (n - k + 1)..n
        IN  /\ (out.support = NULL /\ out.resistance = NULL) <=> (n = 0)
            /\ (out.support = NULL \/ out.resistance = NULL) => (n = 0)
            /\ n > 0 =>
                   /\ \E i \in window : out.support = call.data[i].low
                   /\ \A i \in window : out.support <= call.data[i].low
                   /\ \E i \in window : out.resistance = call.data[i].high
                   /\ \A i \in window : out.resistance >= call.data[i].high
            /\ (call.lookback = 3 /\ n = 3
                    /\ [i \in 1..3 |-> <<call.data[i].low, call.data[i].high>>]
                           = <<<<1000, 2000>>, <<500, 2500>>, <<800, 1800>>>>) =>
                   (out.support = 500 /\ out.resistance = 2500)

\* C12 witness: calculateSupportResistance has returned for a history longer
\* than the lookback whose extreme low and high are outside the window.
C12_WindowShorterThanHistory ==
    /\ ret # <<>>
    /\ call.op = "calculateSupportResistance"
    /\ call.lookback = 2
    /\ Len(call.data) = 4
    /\ call.data[1].low = 500
    /\ call.data[3].low = 1000
    /\ call.data[4].low = 800
    /\ ret[1].support = 800
    /\ ret[1].resistance = 2000

---------------------------------------------------------------------------
(* checkForBuyCallAlert and checkForSellPutAlert on one candle.  Prices in *)
(* hundredths of an asset that trades below one unit.                      *)

RuleLookback ==
    STRONG_CANDLE_BODY_LOOKBACK + PULLBACK_CANDLE_LOOKBACK + VOLUME_AVERAGE_PERIOD

\* the candles before the previous one
Quiet == [open |-> 20, high |-> 21, low |-> 19, close |-> 20, volume |-> 100]
\* previous candles: one whose range holds EMAs, one above every EMA
SmallTouch == [open |-> 7, high |-> 9, low |-> 5, close |-> 8, volume |-> 100]
NoTouch == [open |-> 41, high |-> 45, low |-> 40, close |-> 42, volume |-> 100]
\* current candles
StrongGreen == [open |-> 30, high |-> 50, low |-> 30, close |-> 50, volume |-> 130]
LowGreen == [open |-> 2, high |-> 10, low |-> 2, close |-> 10, volume |-> 130]
ThinGreen == [open |-> 30, high |-> 50, low |-> 30, close |-> 50, volume |-> 120]
WeakGreen == [open |-> 49, high |-> 50, low |-> 49, close |-> 50, volume |-> 130]
StrongRed == [open |-> 12, high |-> 12, low |-> 3, close |-> 3, volume |-> 130]
HighRed == [open |-> 30, high |-> 30, low |-> 5, close |-> 5, volume |-> 130]

PreviousShapes == {SmallTouch, NoTouch}
CurrentShapes == {StrongGreen, LowGreen, ThinGreen, WeakGreen, StrongRed, HighRed}

\* the values of an EMA: null, 0.00, 0.10, 0.20, 0.30
EmaValues == {NULL, 0, 10, 20, 30}

\* the previous snapshots: none, all EMAs, no EMA50 yet
PreviousSnapshots ==
    {<<>>,
     <<[ema10 |-> 8, ema20 |-> 6, ema50 |-> 4]>>,
     <<[ema10 |-> 8, ema20 |-> 6, ema50 |-> NULL]>>}

\* `length` candles that end with a candle of shape `last`
WindowEndingWith(last, length) ==
    [i \in 1..length |-> IF i = length THEN Candle(last, i) ELSE Candle(Quiet, i)]

InitRules ==
    /\ IdleApp
    /\ call \in [op : {"checkForBuyCallAlert", "checkForSellPutAlert"},
                 asset : {MOCK_ASSETS[1]},
                 currentCandle : {Candle(shape, RuleLookback + 1) : shape \in CurrentShapes},
                 previousCandles : {WindowEndingWith(last, length) :
                                        last \in PreviousShapes,
                                        length \in {RuleLookback - 1, RuleLookback}},
                 currentIndicators : [ema10 : EmaValues, ema20 : EmaValues,
                                      ema50 : EmaValues],
                 prevIndicators : PreviousSnapshots]
    /\ ret = <<>>

CallCheckForBuyCallAlert ==
    /\ call.op = "checkForBuyCallAlert"
    /\ ret = <<>>
    /\ ret' = <<checkForBuyCallAlert(call.asset, call.currentCandle, call.previousCandles,
                                     call.currentIndicators, call.prevIndicators)>>
    /\ UNCHANGED <<appVars, call>>

CallCheckForSellPutAlert ==
    /\ call.op = "checkForSellPutAlert"
    /\ ret = <<>>
    /\ ret' = <<checkForSellPutAlert(call.asset, call.currentCandle, call.previousCandles,
                                     call.currentIndicators, call.prevIndicators)>>
    /\ UNCHANGED <<appVars, call>>

NextRules == CallCheckForBuyCallAlert \/ CallCheckForSellPutAlert

SpecRules == InitRules /\ [][NextRules]_vars

\* the prerequisites of the multi-candle rules: a previous window of the
\* three look-backs together, and all three EMAs in both snapshots
RulePrerequisites ==
    /\ Len(call.previousCandles) >= RuleLookback
    /\ call.currentIndicators.ema10 # NULL
    /\ call.currentIndicators.ema20 # NULL
    /\ call.currentIndicators.ema50 # NULL
    /\ call.prevIndicators # <<>>
    /\ call.prevIndicators[1].ema10 # NULL
    /\ call.prevIndicators[1].ema20 # NULL
    /\ call.prevIndicators[1].ema50 # NULL

\* volume > 1.2 times the average volume of the last VOLUME_AVERAGE_PERIOD
\* previous candles
VolumeAboveTrailingAverage ==
    LET trailing == SliceLast(call.previousCandles, VOLUME_AVERAGE_PERIOD)
        total == SumSeq([i \in 1..Len(trailing) |-> trailing[i].volume])
    IN  5 * call.currentCandle.volume * Len(trailing) > 6 * total

SevenBullishConditions ==
    /\ call.currentIndicators.ema10 > call.currentIndicators.ema20
    /\ call.currentIndicators.ema20 > call.currentIndicators.ema50
    /\ call.currentCandle.close > call.currentIndicators.ema50
    /\ hasBullishPullback(call.currentCandle, call.previousCandles,
                          call.currentIndicators, call.prevIndicators[1])
    /\ isStrongGreenCandle(call.currentCandle, call.previousCandles,
                           STRONG_CANDLE_BODY_LOOKBACK)
    /\ call.currentCandle.close > call.previousCandles[Len(call.previousCandles)].high
    /\ VolumeAboveTrailingAverage

SevenBearishConditions ==
    /\ call.currentIndicators.ema10 < call.currentIndicators.ema20
    /\ call.currentIndicators.ema20 < call.currentIndicators.ema50
    /\ call.currentCandle.close < call.currentIndicators.ema50
    /\ hasBearishPullback(call.currentCandle, call.previousCandles,
                          call.currentIndicators, call.prevIndicators[1])
    /\ isStrongRedCandle(call.currentCandle, call.previousCandles,
                         STRONG_CANDLE_BODY_LOOKBACK)
    /\ call.currentCandle.close < call.previousCandles[Len(call.previousCandles)].low
    /\ VolumeAboveTrailingAverage

\* C13: when the prerequisites hold, checkForBuyCallAlert returns a BUY_CALL
\* alert if and only if the seven bullish conditions hold together.
C13_BuyCallIffSevenConditions ==
    (ret # <<>> /\ call.op = "checkForBuyCallAlert" /\ RulePrerequisites) =>
        /\ (ret[1] # <<>>) <=> SevenBullishConditions
        /\ ret[1] # <<>> => ret[1][1].type = "BUY_CALL"

\* C14: when the prerequisites hold, checkForSellPutAlert returns a SELL_PUT
\* alert if and only if the seven bearish conditions hold together.
C14_SellPutIffSevenConditions ==
    (ret # <<>> /\ call.op = "checkForSellPutAlert" /\ RulePrerequisites) =>
        /\ (ret[1] # <<>>) <=> SevenBearishConditions
        /\ ret[1] # <<>> => ret[1][1].type = "SELL_PUT"

---------------------------------------------------------------------------
(* Properties of the monitor, continued.                                   *)

AllEmasDefined(indicator) ==
    indicator.ema10 # NULL /\ indicator.ema20 # NULL /\ indicator.ema50 # NULL

\* a BUY_CALL or SELL_PUT alert a new-candle event appends comes with a
\* previous window of the three look-backs and with all EMAs in the snapshot
\* of the new candle and in the stored previous snapshot
TrendAlertsHavePrerequisites ==
    \A asset \in Assets :
        CandleEvent(asset) =>
            \A k \in (Len(alerts) + 1)..Len(alerts') :
                alerts'[k].type \in {"BUY_CALL", "SELL_PUT"} =>
                    LET updated == allAssetsData'[asset]
                        previous == IF asset \in DOMAIN previousIndicatorDataRef
                                    THEN previousIndicatorDataRef[asset] ELSE <<>>
                    IN  /\ Len(updated.candleData) - 1 >= RuleLookback
                        /\ AllEmasDefined(updated.indicatorData[Len(updated.indicatorData)])
                        /\ previous # <<>>
                        /\ AllEmasDefined(previous[1])

\* C15: a new-candle event emits a BUY_CALL or SELL_PUT alert only if the
\* history without the new candle has at least the three look-backs together
\* and both the current and the previous indicator snapshot have all three
\* EMAs.
C15_TrendAlertsNeedPrerequisites == [][TrendAlertsHavePrerequisites]_vars

---------------------------------------------------------------------------
(* The bullish scenario: the monitor right after a bootstrap with a        *)
(* history of rising candles, and the next candle of the feed.             *)

\* by how much a candle closes above the close before it, and how far its
\* low dips under its open
ScenarioSteps == {100, 200}
ScenarioDips == {0, 150}

RisingCandle(timestamp, prevClose, step, dip) ==
    [timestamp |-> timestamp, open |-> prevClose, high |-> prevClose + step + 10,
     low |-> prevClose - dip, close |-> prevClose + step, volume |-> 100]

\* every history of n candles that rise from a close of 100.00
RECURSIVE RisingHistories(_)
RisingHistories(n) ==
    IF n = 0 THEN {<<>>}
    ELSE {Append(h, RisingCandle(n, IF n = 1 THEN 10000 ELSE h[n - 1].close, step, dip)) :
              h \in RisingHistories(n - 1), step \in ScenarioSteps, dip \in ScenarioDips}

\* the candles the feed may send after `last`: green ones with a body of
\* 1, 1.8 or 3 times that of `last` and a volume of 1.2 or 1.3 times its
\* volume, a red one, and a green one that opens three bodies above the
\* close of `last`
ScenarioCandles(last) ==
    LET body == last.close - last.open
    IN  {[timestamp |-> last.timestamp + 1, open |-> last.close,
          high |-> last.close + grow, low |-> last.close,
          close |-> last.close + grow, volume |-> volume] :
             grow \in {body, (18 * body) \div 10, 3 * body}, volume \in {120, 130}}
        \cup {[timestamp |-> last.timestamp + 1, open |-> last.close,
               high |-> last.close, low |-> last.close - 2 * body,
               close |-> last.close - 2 * body, volume |-> 130]}
        \cup {[timestamp |-> last.timestamp + 1, open |-> last.close + 3 * body,
               high |-> last.close + 4 * body, low |-> last.close + 3 * body,
               close |-> last.close + 4 * body, volume |-> 130]}

\* the state the subscription effect leaves when the feed's bootstrap history
\* of the first asset is one of the rising histories, with the early-pullback
\* flag on or off
InitScenario ==
    /\ selectedAsset = MOCK_ASSETS[1]
    /\ selectedTimeframe = "1m"
    /\ \E history \in RisingHistories(CHART_DATA_LIMIT) :
           LET initial == [asset \in Assets |->
                              IF asset = MOCK_ASSETS[1] THEN history ELSE <<>>]
           IN  /\ allAssetsData = [asset \in Assets |-> BootstrapState(initial[asset])]
               /\ previousIndicatorDataRef =
                      [asset \in Assets |->
                          LastIndicator(BootstrapState(initial[asset]).indicatorData)]
    /\ alerts = <<>>
    /\ targetLineValues = [asset \in Assets |-> NULL]
    /\ enableSoundAlerts = FALSE
    /\ enableEarlyPullbackAlerts \in BOOLEAN
    /\ marketDataSubscriptions = [asset \in Assets |-> [intervalId |-> AssetIndex(asset)]]
    /\ activeIntervals = [feed |-> {<<asset, AssetIndex(asset)>> : asset \in Assets},
                          target |-> 1]
    /\ subscribedHandler = [enableEarlyPullbackAlerts |-> enableEarlyPullbackAlerts,
                            targetLineValues |-> [asset \in Assets |-> NULL]]
    /\ effectPending = {}
    /\ tickLeft = TARGET_LINE_PERIOD
    /\ nextIntervalId = Len(MOCK_ASSETS) + 1
    /\ events = MaxEvents - 1
    /\ duplicateDropped = FALSE
    /\ dismissed = {}
    /\ candleDropped = FALSE
    /\ call = <<>>
    /\ ret = <<>>

ScenarioCandleArrives ==
    /\ Len(allAssetsData[MOCK_ASSETS[1]].candleData) > 0
    /\ \E newCandle \in ScenarioCandles(allAssetsData[MOCK_ASSETS[1]].candleData[
                            Len(allAssetsData[MOCK_ASSETS[1]].candleData)]) :
           handleNewCandle(MOCK_ASSETS[1], newCandle)

NextScenario == ScenarioCandleArrives

SpecScenario == InitScenario /\ [][NextScenario]_vars

StrictlyRisingCloses(history) ==
    \A i \in 1..(Len(history) - 1) : history[i].close < history[i + 1].close

\* the scenario, before `newCandle` of the first asset is taken in: rising
\* closes up to and including the new candle, a previous window of the
\* three look-backs, EMA10 > EMA20 > EMA50 in the stored snapshot, the latest
\* candle (the pullback candle) touching its EMA20, and the new candle green
\* with a body over 1.5 times the average body, closing above the latest
\* high on 1.3 times the average volume
BullishScenario(newCandle) ==
    LET asset == MOCK_ASSETS[1]
        history == allAssetsData[asset].candleData
        pullbackCandle == history[Len(history)]
        snapshot == previousIndicatorDataRef[asset]
        bodies == SliceLast(history, STRONG_CANDLE_BODY_LOOKBACK)
        volumes == SliceLast(history, VOLUME_AVERAGE_PERIOD)
    IN  /\ Len(history) >= EMA_SLOW
        /\ (IF Len(history) < CHART_DATA_LIMIT THEN Len(history)
            ELSE CHART_DATA_LIMIT - 1) >= RuleLookback
        /\ StrictlyRisingCloses(history)
        /\ newCandle.close > pullbackCandle.close
        /\ snapshot # <<>>
        /\ AllEmasDefined(snapshot[1])
        /\ snapshot[1].ema10 > snapshot[1].ema20
        /\ snapshot[1].ema20 > snapshot[1].ema50
        /\ pullbackCandle.low <= snapshot[1].ema20
        /\ pullbackCandle.high >= snapshot[1].ema20
        /\ newCandle.close > newCandle.open
        /\ 2 * (newCandle.close - newCandle.open) * Len(bodies)
               > 3 * SumSeq([i \in 1..Len(bodies) |-> Abs(bodies[i].close - bodies[i].open)])
        /\ newCandle.close > pullbackCandle.high
        /\ 10 * newCandle.volume * Len(volumes)
               = 13 * SumSeq([i \in 1..Len(volumes) |-> volumes[i].volume])

AlertsOf(log, type, asset, timestamp) ==
    {k \in 1..Len(log) : /\ log[k].type = type
                         /\ log[k].asset = asset
                         /\ log[k].timestamp = timestamp}

ScenarioEmitsOneBuyCall ==
    \A newCandle \in ScenarioCandles(allAssetsData[MOCK_ASSETS[1]].candleData[
                         Len(allAssetsData[MOCK_ASSETS[1]].candleData)]) :
        (handleNewCandle(MOCK_ASSETS[1], newCandle) /\ BullishScenario(newCandle)) =>
            /\ Cardinality(AlertsOf(alerts', "BUY_CALL", MOCK_ASSETS[1],
                                    newCandle.timestamp)) = 1
            /\ AlertsOf(alerts, "BUY_CALL", MOCK_ASSETS[1], newCandle.timestamp) = {}
            /\ \A k \in 1..Len(alerts') : alerts'[k].type # "SELL_PUT"

\* C16: when a history of rising closes with EMA10 > EMA20 > EMA50 ends in a
\* pullback candle that touches EMA20 and the next candle is a strong green
\* one that closes above the pullback candle's high on 1.3 times the average
\* volume, the monitor emits one BUY_CALL alert with the timestamp and the
\* asset of that candle, and no SELL_PUT alert.
C16_BullishScenarioEmitsOneBuyCall == [][ScenarioEmitsOneBuyCall]_vars

\* C16 witness: the scenario's candle, with a body of 1.8 times the pullback
\* candle's and 1.3 times its volume, has been taken in and the log holds
\* its BUY_CALL alert and nothing else.
C16_BuyCallOfScenario ==
    LET history == allAssetsData[MOCK_ASSETS[1]].candleData
        latest == history[Len(history)]
        before == history[Len(history) - 1]
    IN  /\ events = MaxEvents
        /\ Len(history) = CHART_DATA_LIMIT
        /\ StrictlyRisingCloses(history)
        /\ latest.volume = 130
        /\ 10 * (latest.close - latest.open) = 18 * (before.close - before.open)
        /\ before.low < before.open
        /\ Len(alerts) = 1
        /\ alerts[1] = Alert("buy-call", "BUY_CALL", MOCK_ASSETS[1], latest)

---------------------------------------------------------------------------
(* Dismissal                                                               *)

RemoveAt(log, k) == SubSeq(log, 1, k - 1) \o SubSeq(log, k + 1, Len(log))

AlertIdsUnique ==
    \A i, j \in 1..Len(alerts) : alerts[i].id = alerts[j].id => i = j

DismissRemovesThatAlertOnly ==
    \A id \in DismissIds :
        dismissAlert(id) =>
            LET hits == {k \in 1..Len(alerts) : alerts[k].id = id}
            IN  /\ Cardinality(hits) <= 1
                /\ hits = {} => alerts' = alerts
                /\ \A k \in hits : alerts' = RemoveAt(alerts, k)

\* C17: a dismissal removes from the log the alert with the given id and
\* nothing else, the others keeping their order; with an id no alert has the
\* log stays as it is; no two alerts of the log share an id, so a dismissal
\* removes at most one.
C17_DismissRemovesExactlyOneById == []AlertIdsUnique /\ [][DismissRemovesThatAlertOnly]_vars

\* C17 witness: a falling candle after the flat bootstrap, taken in with
\* early-pullback alerts on, put a SELL_PUT and an EARLY_PULLBACK_EMA20 alert
\* in the log; the SELL_PUT alert was dismissed and the other is still there.
C17_SellPutDismissedEarlyPullbackKept ==
    /\ MOCK_ASSETS[1] \in DOMAIN allAssetsData
    /\ LET history == allAssetsData[MOCK_ASSETS[1]].candleData
       IN  /\ Len(history) = CHART_DATA_LIMIT
           /\ \A i \in 1..(Len(history) - 1) : history[i] = Candle(Flat, history[i].timestamp)
           /\ history[Len(history)] = Candle(Down, history[Len(history)].timestamp)
           /\ alerts = <<Alert("early-pullback-ema20", "EARLY_PULLBACK_EMA20",
                               MOCK_ASSETS[1], history[Len(history)])>>
    /\ subscribedHandler.enableEarlyPullbackAlerts
    /\ events = MaxEvents

---------------------------------------------------------------------------
(* Selection changes                                                       *)

SelectionChange ==
    \/ \E asset \in Assets : handleSelectAsset(asset)
    \/ \E timeframe \in Timeframes : handleSelectTimeframe(timeframe)

AlertsSurvive == \A i \in 1..Len(alerts) : \E j \in 1..Len(alerts') : alerts'[j] = alerts[i]

\* C18: every alert of the log is still in the log after a change of the
\* selected timeframe or of the selected asset.
C18_AlertsSurviveSelectionChange == [][SelectionChange => AlertsSurvive]_vars

\* a timeframe change has been made and the subscription effect it triggers
\* has not run yet
ResetPending == "selectedTimeframe" \in effectPending

\* until the effect runs there is no asset state, no previous snapshot and
\* no pivot
NothingKeptWhileResetPending ==
    ResetPending => /\ allAssetsData = <<>>
                    /\ previousIndicatorDataRef = <<>>
                    /\ targetLineValues = <<>>

TimeframeChangeDiscardsAll ==
    \A timeframe \in Timeframes :
        handleSelectTimeframe(timeframe) =>
            /\ allAssetsData' = <<>>
            /\ previousIndicatorDataRef' = <<>>
            /\ targetLineValues' = <<>>
            /\ ResetPending'

\* a candle that arrives before the effect has run is not evaluated
NoEvaluationWhileResetPending ==
    \A asset \in Assets :
        (ResetPending /\ CandleEvent(asset)) =>
            UNCHANGED <<alerts, allAssetsData, previousIndicatorDataRef>>

\* the effect seeds every asset from the history fetched with the new
\* timeframe, and the handler it subscribes holds no pivot
ReseededFromNewTimeframe ==
    (ResetPending /\ SubscriptionEffect) =>
        /\ \A asset \in Assets :
               LET fetched == getInitialCandleData(asset, CHART_DATA_LIMIT, selectedTimeframe)
               IN  /\ allAssetsData'[asset].candleData = fetched
                   /\ allAssetsData'[asset].indicatorData
                          = calculateAllIndicators(fetched).indicators
                   /\ allAssetsData'[asset].supportResistance
                          = calculateAllIndicators(fetched).supportResistance
                   /\ previousIndicatorDataRef'[asset]
                          = LastIndicator(calculateAllIndicators(fetched).indicators)
        /\ subscribedHandler'.targetLineValues = <<>>
        /\ ~ResetPending'

\* a BUY_CALL or SELL_PUT alert is appended only with a stored previous
\* snapshot and a previous window of the three look-backs
TrendAlertsNeedAccumulatedHistory ==
    \A asset \in Assets :
        CandleEvent(asset) =>
            \A k \in (Len(alerts) + 1)..Len(alerts') :
                alerts'[k].type \in {"BUY_CALL", "SELL_PUT"} =>
                    /\ asset \in DOMAIN previousIndicatorDataRef
                    /\ previousIndicatorDataRef[asset] # <<>>
                    /\ Len(allAssetsData[asset].candleData) >= RuleLookback

\* C19: a timeframe change discards the history, indicator series,
\* support/resistance and pivot of every asset and the previous snapshots;
\* nothing is evaluated until the subscription effect has seeded every asset
\* from the history fetched with the new timeframe, and a rule that needs a
\* previous snapshot fires only with a snapshot and a window stored since.
C19_TimeframeChangeResetsEverything == []NothingKeptWhileResetPending /\ [][TimeframeChangeDiscardsAll /\ NoEvaluationWhileResetPending /\ ReseededFromNewTimeframe /\ TrendAlertsNeedAccumulatedHistory]_vars

\* C19 witness: after a change to the 3m timeframe the effect has seeded the
\* second asset with the shorter history of that timeframe, and a candle
\* taken in since has been evaluated against it and raised an alert.
C19_EvaluatedAfterReset ==
    /\ selectedTimeframe = "3m"
    /\ ~ResetPending
    /\ MOCK_ASSETS[2] \in DOMAIN allAssetsData
    /\ LET history == allAssetsData[MOCK_ASSETS[2]].candleData
           fetched == getInitialCandleData(MOCK_ASSETS[2], CHART_DATA_LIMIT, "3m")
       IN  /\ Len(history) = Len(fetched) + 1
           /\ SubSeq(history, 1, Len(fetched)) = fetched
    /\ \E k \in 1..Len(alerts) : alerts[k].asset = MOCK_ASSETS[2]

---------------------------------------------------------------------------
(* src/App.tsx: the App that monitors the selected asset only.  Its state  *)
(* is held in the same variables: allAssetsData has the one entry of the   *)
(* selected asset (candleData, indicatorData and supportResistance are     *)
(* three useState values set by different steps), the two refs have one    *)
(* entry each, and effectPending names the effects whose dependencies      *)
(* changed in the last render.                                             *)

SingleEntry(asset, value) == [a \in {asset} |-> value]

singleIdle == <<targetLineValues, enableSoundAlerts, subscribedHandler, tickLeft, duplicateDropped, dismissed, candleDropped, call, ret>>

InitSingleAsset ==
    /\ selectedAsset = MOCK_ASSETS[1]
    /\ selectedTimeframe = "1m"
    /\ allAssetsData = SingleEntry(MOCK_ASSETS[1], EmptyAssetState)
    /\ alerts = <<>>
    /\ targetLineValues = <<>>
    /\ enableSoundAlerts = FALSE
    /\ enableEarlyPullbackAlerts = FALSE
    /\ marketDataSubscriptions = <<>>
    /\ activeIntervals = [feed |-> {}, target |-> 0]
    /\ previousIndicatorDataRef = SingleEntry(MOCK_ASSETS[1], <<>>)
    /\ subscribedHandler = <<>>
    /\ effectPending = {"subscription", "calculation"}
    /\ tickLeft = 0
    /\ nextIntervalId = 1
    /\ events = 0
    /\ duplicateDropped = FALSE
    /\ dismissed = {}
    /\ candleDropped = FALSE
    /\ call = <<>>
    /\ ret = <<>>

\* handleNewCandle of src/App.tsx: setCandleData only; the new array is a
\* dependency of the calculation effect
handleNewCandleSingle(newCandle) ==
    /\ events < MaxEvents
    /\ selectedAsset \in DOMAIN marketDataSubscriptions
    /\ events' = events + 1
    /\ allAssetsData' =
           [allAssetsData EXCEPT ![selectedAsset].candleData = AppendCandle(@, newCandle)]
    /\ effectPending' = effectPending \cup {"calculation"}
    /\ UNCHANGED <<selectedAsset, selectedTimeframe, alerts, enableEarlyPullbackAlerts,
                   marketDataSubscriptions, activeIntervals, previousIndicatorDataRef, nextIntervalId>>
    /\ UNCHANGED singleIdle

\* what handleSelectAsset and handleSelectTimeframe of src/App.tsx share:
\* setCandleData([]), setAlerts([]), previousIndicatorDataRef.current = null
SelectSingle(asset, timeframe) ==
    /\ events < MaxEvents
    /\ events' = events + 1
    /\ selectedAsset' = asset
    /\ selectedTimeframe' = timeframe
    /\ allAssetsData' =
           SingleEntry(asset, [allAssetsData[selectedAsset] EXCEPT !.candleData = <<>>])
    /\ alerts' = <<>>
    /\ previousIndicatorDataRef' = SingleEntry(asset, <<>>)
    /\ marketDataSubscriptions' =
           IF selectedAsset \in DOMAIN marketDataSubscriptions
           THEN SingleEntry(asset, marketDataSubscriptions[selectedAsset])
           ELSE <<>>
    /\ effectPending' =
           effectPending \cup {"calculation"}
               \cup (IF asset # selectedAsset \/ timeframe # selectedTimeframe
                     THEN {"subscription"} ELSE {})
    /\ UNCHANGED <<enableEarlyPullbackAlerts, nextIntervalId, activeIntervals>>
    /\ UNCHANGED singleIdle

handleSelectAssetSingle(asset) == SelectSingle(asset, selectedTimeframe)

handleSelectTimeframeSingle(timeframe) == SelectSingle(selectedAsset, timeframe)

\* the early-pullback flag is a dependency of the calculation effect
setEnableEarlyPullbackAlertsSingle(enabled) ==
    /\ events < MaxEvents
    /\ events' = events + 1
    /\ enableEarlyPullbackAlerts' = enabled
    /\ effectPending' = IF enabled # enableEarlyPullbackAlerts
                        THEN effectPending \cup {"calculation"} ELSE effectPending
    /\ UNCHANGED <<selectedAsset, selectedTimeframe, allAssetsData, alerts,
                   marketDataSubscriptions, activeIntervals, previousIndicatorDataRef, nextIntervalId>>
    /\ UNCHANGED singleIdle

\* "Effect for market data subscription"
SubscriptionEffectSingle ==
    /\ "subscription" \in effectPending
    /\ allAssetsData' =
           [allAssetsData EXCEPT ![selectedAsset].candleData =
               getInitialCandleData(selectedAsset, CHART_DATA_LIMIT, selectedTimeframe)]
    /\ marketDataSubscriptions' = SingleEntry(selectedAsset, [intervalId |-> nextIntervalId])
    /\ nextIntervalId' = nextIntervalId + 1
    /\ activeIntervals' =
           [activeIntervals EXCEPT !.feed =
               UnsubscribeAll(@, marketDataSubscriptions)
                   \cup {<<selectedAsset, nextIntervalId>>}]
    /\ effectPending' = (effectPending \ {"subscription"}) \cup {"calculation"}
    /\ UNCHANGED <<selectedAsset, selectedTimeframe, alerts, enableEarlyPullbackAlerts,
                   previousIndicatorDataRef, events>>
    /\ UNCHANGED singleIdle

\* the alert candidates of the calculation effect, in the order of its
\* addAlert calls
AlertCandidatesSingle(candleData, currentIndicator, prevIndicator) ==
    LET currentCandle == candleData[Len(candleData)]
        previousCandles == SliceButLast(candleData)
    IN  (IF prevIndicator # <<>>
         THEN checkForBuyCallAlert(selectedAsset, currentCandle, previousCandles,
                                   currentIndicator, prevIndicator)
              \o checkForSellPutAlert(selectedAsset, currentCandle, previousCandles,
                                      currentIndicator, prevIndicator)
         ELSE <<>>)
        \o (IF enableEarlyPullbackAlerts
            THEN checkForEarlyPullbackAlert(selectedAsset, currentCandle, currentIndicator)
            ELSE <<>>)

\* "Effect for calculations and alerts"; it runs after the subscription
\* effect of the same render
CalculationEffect ==
    /\ effectPending = {"calculation"}
    /\ effectPending' = {}
    /\ LET candleData == allAssetsData[selectedAsset].candleData
           calc == calculateAllIndicators(candleData)
       IN  IF Len(candleData) > 0
           THEN /\ allAssetsData' =
                       SingleEntry(selectedAsset,
                                   [candleData |-> candleData,
                                    indicatorData |-> calc.indicators,
                                    supportResistance |-> calc.supportResistance])
                /\ alerts' = AddAlerts(alerts,
                                 AlertCandidatesSingle(candleData,
                                     calc.indicators[Len(calc.indicators)],
                                     previousIndicatorDataRef[selectedAsset]))
                /\ previousIndicatorDataRef' =
                       SingleEntry(selectedAsset, LastIndicator(calc.indicators))
           ELSE /\ allAssetsData' = SingleEntry(selectedAsset, EmptyAssetState)
                /\ previousIndicatorDataRef' = SingleEntry(selectedAsset, <<>>)
                /\ UNCHANGED alerts
    /\ UNCHANGED <<selectedAsset, selectedTimeframe, enableEarlyPullbackAlerts,
                   marketDataSubscriptions, activeIntervals, nextIntervalId, events>>
    /\ UNCHANGED singleIdle

NextSingleAsset ==
    \/ \E shape \in CandleShapes : \E timestamp \in FeedTimestamps(selectedAsset) :
           handleNewCandleSingle(Candle(shape, timestamp))
    \/ \E asset \in Assets : handleSelectAssetSingle(asset)
    \/ \E timeframe \in Timeframes : handleSelectTimeframeSingle(timeframe)
    \/ \E id \in DismissIds : dismissAlert(id)
    \/ setEnableEarlyPullbackAlertsSingle(~enableEarlyPullbackAlerts)
    \/ SubscriptionEffectSingle
    \/ CalculationEffect

SpecSingleAsset == InitSingleAsset /\ [][NextSingleAsset]_vars

---------------------------------------------------------------------------
(* Alignment of the indicator series                                       *)

\* the snapshot of candle i: that of the history up to and including it
SnapshotOfCandle(history, i) ==
    LET upTo == SubSeq(history, 1, i)
    IN  [ema10 |-> calculateEMA(upTo, EMA_FAST)[i],
         ema20 |-> calculateEMA(upTo, EMA_MEDIUM)[i],
         ema50 |-> calculateEMA(upTo, EMA_SLOW)[i]]

\* C20: in every state each asset's indicator series is as long as its
\* candle history, and entry i of it is the snapshot of candle i.
C20_IndicatorSeriesAligned ==
    \A asset \in DOMAIN allAssetsData :
        LET state == allAssetsData[asset]
        IN  /\ Len(state.indicatorData) = Len(state.candleData)
            /\ \A i \in 1..Len(state.candleData) :
                   state.indicatorData[i] = SnapshotOfCandle(state.candleData, i)

---------------------------------------------------------------------------
(* The previous snapshot                                                   *)

\* Spec: a new-candle event of `asset` reads the snapshot of the latest
\* stored candle of that asset and stores that of the candle it appends
PreviousSnapshotHandedOn ==
    \A asset \in Assets :
        (CandleEvent(asset) /\ asset \in DOMAIN allAssetsData) =>
            /\ previousIndicatorDataRef[asset]
                   = LastIndicator(allAssetsData[asset].indicatorData)
            /\ previousIndicatorDataRef'[asset]
                   = LastIndicator(allAssetsData'[asset].indicatorData)
            /\ \A other \in Assets \ {asset} :
                   other \in DOMAIN previousIndicatorDataRef =>
                       previousIndicatorDataRef'[other] = previousIndicatorDataRef[other]

\* SpecSingleAsset: the calculation effect stores the snapshot of the latest
\* candle, and the previous snapshot it hands to the rules is that of the
\* candle before the latest one (stated for a history that still starts
\* with the first candle of the feed, where that snapshot can be recomputed)
EffectReceivesSnapshotOfCandleBefore ==
    LET candleData == allAssetsData[selectedAsset].candleData
        prevIndicator == previousIndicatorDataRef[selectedAsset]
    IN  (CalculationEffect /\ Len(candleData) > 0) =>
            /\ previousIndicatorDataRef'[selectedAsset]
                   = <<SnapshotOfCandle(candleData, Len(candleData))>>
            /\ (/\ prevIndicator # <<>>
                /\ Len(candleData) > 1
                /\ candleData[1].timestamp = 1) =>
                   prevIndicator[1] = SnapshotOfCandle(candleData, Len(candleData) - 1)

\* C21: after a new candle of an asset has been evaluated the stored
\* previous snapshot of the asset is the snapshot of that candle, and the
\* rules evaluated for a candle receive the snapshot of the candle before
\* it, not the candle's own and not another asset's.
C21_RulesReceivePreviousCandleSnapshot == [][EffectReceivesSnapshotOfCandleBefore]_vars

\* the same hand-over in the multi-asset App, where it holds in Spec
MultiAssetHandsOnPreviousSnapshot == [][PreviousSnapshotHandedOn]_vars

---------------------------------------------------------------------------
(* Alerts of one new-candle event                                          *)

\* the types of the alerts of each rule
RuleTypes ==
    {{"BUY_CALL"}, {"SELL_PUT"}, {"EARLY_PULLBACK_EMA20"},
     {"TARGET_LINE_CONFIRMATION_BULLISH", "TARGET_LINE_CONFIRMATION_BEARISH"}}

AtMostOneAlertPerRule ==
    \A asset \in Assets : \A shape \in CandleShapes :
        \A timestamp \in FeedTimestamps(asset) :
            handleNewCandle(asset, Candle(shape, timestamp)) =>
                LET added == (Len(alerts) + 1)..Len(alerts')
                IN  /\ Len(alerts') >= Len(alerts)
                    /\ SubSeq(alerts', 1, Len(alerts)) = alerts
                    /\ \A k \in added : /\ alerts'[k].asset = asset
                                        /\ alerts'[k].timestamp = timestamp
                                        /\ \E types \in RuleTypes : alerts'[k].type \in types
                    /\ \A types \in RuleTypes :
                           Cardinality({k \in added : alerts'[k].type \in types}) <= 1

\* C22: one new-candle event appends at most one alert of each rule, and
\* every alert it appends carries the asset and the timestamp of its candle.
C22_AtMostOneAlertPerRulePerCandle == [][AtMostOneAlertPerRule]_vars

\* C22 witness: one candle of the second asset has put the alerts of two
\* rules in the log, both with its asset and timestamp.
C22_TwoRulesFiredOnOneCandle ==
    /\ MOCK_ASSETS[2] \in DOMAIN allAssetsData
    /\ Len(allAssetsData[MOCK_ASSETS[2]].candleData) > 0
    /\ LET history == allAssetsData[MOCK_ASSETS[2]].candleData
           latest == history[Len(history)]
       IN  \E i, j \in 1..Len(alerts) :
               /\ i < j
               /\ alerts[i].type # alerts[j].type
               /\ alerts[i].asset = MOCK_ASSETS[2] /\ alerts[j].asset = MOCK_ASSETS[2]
               /\ alerts[i].timestamp = latest.timestamp
               /\ alerts[j].timestamp = latest.timestamp

---------------------------------------------------------------------------
(* The early-pullback rule                                                 *)

EarlyPullbackAlertsOf(log) == {k \in 1..Len(log) : log[k].type = "EARLY_PULLBACK_EMA20"}

EarlyPullbackOnlyWhenEnabledAndStraddling ==
    \A newCandle \in ScenarioCandles(allAssetsData[MOCK_ASSETS[1]].candleData[
                         Len(allAssetsData[MOCK_ASSETS[1]].candleData)]) :
        (handleNewCandle(MOCK_ASSETS[1], newCandle)
            /\ EarlyPullbackAlertsOf(alerts') # EarlyPullbackAlertsOf(alerts)) =>
                LET series == allAssetsData'[MOCK_ASSETS[1]].indicatorData
                    ema20 == series[Len(series)].ema20
                IN  /\ enableEarlyPullbackAlerts
                    /\ ema20 # NULL
                    /\ newCandle.low <= ema20
                    /\ ema20 <= newCandle.high

NoEarlyPullbackWhileDisabled ==
    ~enableEarlyPullbackAlerts => EarlyPullbackAlertsOf(alerts) = {}

EarlyPullbackNotRaisedAboveEma ==
    LET state == allAssetsData[MOCK_ASSETS[1]]
        latest == state.candleData[Len(state.candleData)]
        ema20 == state.indicatorData[Len(state.indicatorData)].ema20
    IN  /\ events = MaxEvents
        /\ enableEarlyPullbackAlerts
        /\ ema20 # NULL /\ ema20 < latest.low
        /\ EarlyPullbackAlertsOf(alerts) = {}

---------------------------------------------------------------------------
(* The strong-candle detectors as functions of their arguments             *)

\* previous candles with a body of 0.10 and of 0.20
Body10 == [open |-> 100, high |-> 125, low |-> 95, close |-> 110, volume |-> 100]
Body20 == [open |-> 120, high |-> 125, low |-> 95, close |-> 100, volume |-> 100]

\* current candles: bodies around 1.5 times 0.10, 0.15 and 0.20, up and
\* down, and one without a body
CurrentBodies == {0, 1, 15, 16, 22, 23, 30, 31}

StrongCandidates ==
    {[open |-> 100, high |-> 100 + body, low |-> 100, close |-> 100 + body,
      volume |-> 100, timestamp |-> MaxLen + 1] : body \in CurrentBodies}
    \cup {[open |-> 100, high |-> 100, low |-> 100 - body, close |-> 100 - body,
           volume |-> 100, timestamp |-> MaxLen + 1] : body \in CurrentBodies}

InitStrong ==
    /\ IdleApp
    /\ call \in [op : {"isStrongGreenCandle", "isStrongRedCandle"},
                 currentCandle : StrongCandidates,
                 previousCandles : CandleHistories({Body10, Body20}, MaxLen),
                 lookback : 1..MaxLookback]
    /\ ret = <<>>

CallIsStrongGreenCandle ==
    /\ call.op = "isStrongGreenCandle"
    /\ ret = <<>>
    /\ ret' = <<isStrongGreenCandle(call.currentCandle, call.previousCandles, call.lookback)>>
    /\ UNCHANGED <<appVars, call>>

CallIsStrongRedCandle ==
    /\ call.op = "isStrongRedCandle"
    /\ ret = <<>>
    /\ ret' = <<isStrongRedCandle(call.currentCandle, call.previousCandles, call.lookback)>>
    /\ UNCHANGED <<appVars, call>>

NextStrong == CallIsStrongGreenCandle \/ CallIsStrongRedCandle

SpecStrong == InitStrong /\ [][NextStrong]_vars

\* the sum of the bodies of the trailing `lookback` candles
TrailingBodyTotal(window, lookback) ==
    SumSeq([i \in 1..lookback |->
               Abs(window[Len(window) - lookback + i].close
                       - window[Len(window) - lookback + i].open)])

\* body > 1.5 times the average body, the average being 0 for a window of
\* fewer than `lookback` candles
BodyOverAverage(candle, window, lookback) ==
    IF Len(window) < lookback THEN 2 * Abs(candle.close - candle.open) > 0
    ELSE 2 * Abs(candle.close - candle.open) * lookback
             > 3 * TrailingBodyTotal(window, lookback)

RightDirection ==
    IF call.op = "isStrongGreenCandle"
    THEN call.currentCandle.close > call.currentCandle.open
    ELSE call.currentCandle.close < call.currentCandle.open

\* C24 as stated: the detector is true exactly when the candle has the
\* direction and a body over 1.5 times the average body, which is 0 for a
\* window of fewer than `lookback` candles.
C24_StrongIffBodyOverAverage ==
    ret # <<>> =>
        (ret[1] <=> (RightDirection
                        /\ BodyOverAverage(call.currentCandle, call.previousCandles,
                                           call.lookback)))

\* C24: the detector is true exactly when the window has at least `lookback`
\* candles, the candle has the direction (close > open for the green
\* detector, close < open for the red one) and its body is over 1.5 times
\* the mean body of the trailing `lookback` candles.
C24_StrongIffWindowAndBodyOverAverage ==
    ret # <<>> =>
        (ret[1] <=> (/\ Len(call.previousCandles) >= call.lookback
                     /\ RightDirection
                     /\ BodyOverAverage(call.currentCandle, call.previousCandles,
                                        call.lookback)))

\* C24 witness: a red candle was found strong against the mean body of a
\* trailing window shorter than the history, whose older candles have other
\* bodies.
C24_StrongAgainstTrailingWindow ==
    /\ ret = <<TRUE>>
    /\ call.op = "isStrongRedCandle"
    /\ Len(call.previousCandles) > call.lookback
    /\ call.previousCandles[1] = Candle(Body20, 1)
    /\ call.previousCandles[Len(call.previousCandles)] = Candle(Body10, Len(call.previousCandles))
    /\ call.currentCandle.open - call.currentCandle.close = 16

---------------------------------------------------------------------------
(* The pullback detectors as functions of their arguments                  *)

\* PULLBACK_CANDLE_LOOKBACK as constants.ts has it
PullbackLookbackOfSource == 2

\* current candles: closing above, at and below the close of SmallTouch
\* (0.08) and of NoTouch (0.42)
ClosingAt(close) == [open |-> 20, high |-> 60, low |-> 1, close |-> close, volume |-> 100]

PullbackCandidates == {Candle(ClosingAt(close), MaxLen + 1) : close \in {1, 8, 42, 50}}

\* an EMA10 or EMA20: null, 0.00 and 0.10 (outside the range of SmallTouch),
\* 0.07 (inside it)
PullbackEmaValues == {NULL, 0, 7, 10}

PullbackSnapshots == [ema10 : PullbackEmaValues, ema20 : PullbackEmaValues, ema50 : {NULL}]

InitPullback ==
    /\ IdleApp
    /\ call \in [op : {"hasBullishPullback", "hasBearishPullback"},
                 currentCandle : PullbackCandidates,
                 previousCandles : {<<>>} \cup {WindowEndingWith(last, length) :
                                                   last \in PreviousShapes,
                                                   length \in 1..MaxLen},
                 currentIndicators : PullbackSnapshots,
                 prevIndicators : PullbackSnapshots]
    /\ ret = <<>>

CallHasBullishPullback ==
    /\ call.op = "hasBullishPullback"
    /\ ret = <<>>
    /\ ret' = <<hasBullishPullbackOver(PullbackLookbackOfSource, call.currentCandle,
                                       call.previousCandles, call.currentIndicators,
                                       call.prevIndicators)>>
    /\ UNCHANGED <<appVars, call>>

CallHasBearishPullback ==
    /\ call.op = "hasBearishPullback"
    /\ ret = <<>>
    /\ ret' = <<hasBearishPullbackOver(PullbackLookbackOfSource, call.currentCandle,
                                       call.previousCandles, call.currentIndicators,
                                       call.prevIndicators)>>
    /\ UNCHANGED <<appVars, call>>

NextPullback == CallHasBullishPullback \/ CallHasBearishPullback

SpecPullback == InitPullback /\ [][NextPullback]_vars

InRange(candle, value) == candle.low <= value /\ value <= candle.high

\* (a), (b) and (c) of the pullback detectors, for a call with a preceding
\* candle
TouchAndBounce ==
    LET preceding == call.previousCandles[Len(call.previousCandles)]
        emas == {call.currentIndicators.ema10, call.currentIndicators.ema20,
                 call.prevIndicators.ema10, call.prevIndicators.ema20}
    IN  /\ NULL \notin emas
        /\ \E value \in emas : InRange(preceding, value)
        /\ IF call.op = "hasBullishPullback"
           THEN call.currentCandle.close > preceding.close
           ELSE call.currentCandle.close < preceding.close

\* C25 as stated: a pullback detector is true exactly when there is a
\* preceding candle, EMA10 and EMA20 are defined in both snapshots, the
\* range of the preceding candle holds one of the four values, and the
\* current close is above (bullish) or below (bearish) the preceding close.
C25_PullbackIffTouchAndBounce ==
    ret # <<>> => (ret[1] <=> (Len(call.previousCandles) >= 1 /\ TouchAndBounce))

\* C25: a pullback detector is true exactly when the previous window has at
\* least PULLBACK_CANDLE_LOOKBACK candles, EMA10 and EMA20 are defined in
\* both snapshots, the range of the preceding candle holds one of the four
\* values, and the current close is above (bullish) or below (bearish) the
\* preceding close.
C25_PullbackIffWindowTouchAndBounce ==
    ret # <<>> =>
        (ret[1] <=> (Len(call.previousCandles) >= PullbackLookbackOfSource
                        /\ TouchAndBounce))

\* C25 witness: a bearish pullback found through an EMA of the previous
\* snapshot alone, the EMAs of the current snapshot being outside the range
\* of the preceding candle.
C25_PullbackThroughPreviousEma ==
    /\ ret = <<TRUE>>
    /\ call.op = "hasBearishPullback"
    /\ LET preceding == call.previousCandles[Len(call.previousCandles)]
       IN  /\ ~InRange(preceding, call.currentIndicators.ema10)
           /\ ~InRange(preceding, call.currentIndicators.ema20)
           /\ ~InRange(preceding, call.prevIndicators.ema10)
           /\ InRange(preceding, call.prevIndicators.ema20)

-----------------------------------------------------------------------------
(* The periodic timers: the feed's interval of every asset and the         *)
(* target-line interval.                                                   *)

\* the intervals of the handles the ref holds
IntervalsOfRef ==
    {marketDataSubscriptions[asset].intervalId : asset \in DOMAIN marketDataSubscriptions}

\* no asset has two intervals of the feed that are set, every interval that
\* is set is the one of the handle in the ref, and at most one target-line
\* interval is set
AtMostOneTimerEach ==
    /\ \A sub \in activeIntervals.feed, other \in activeIntervals.feed :
           sub[1] = other[1] => sub = other
    /\ {sub[2] : sub \in activeIntervals.feed} = IntervalsOfRef
    /\ activeIntervals.target <= 1

\* a step that subscribes: every interval that was set before it is cleared,
\* and the intervals set after it are the new ones of all assets
OldSubscriptionsGoneWhenResubscribed ==
    nextIntervalId' # nextIntervalId =>
        /\ activeIntervals.feed \cap activeIntervals'.feed = {}
        /\ \A sub \in activeIntervals'.feed : sub[2] >= nextIntervalId
        /\ {sub[1] : sub \in activeIntervals'.feed} = Assets

\* a step that changes the state of an asset without subscribing: a candle
\* of the feed was taken into it
CandleDelivered(asset) ==
    /\ nextIntervalId' = nextIntervalId
    /\ asset \in DOMAIN allAssetsData /\ asset \in DOMAIN allAssetsData'
    /\ allAssetsData'[asset] # allAssetsData[asset]

\* a candle is taken into the state of an asset only from the one interval of
\* that asset the latest run of the effect has set, never while a change of
\* timeframe waits for the effect
OldCallbackNeverReachesNewState ==
    \A asset \in Assets :
        CandleDelivered(asset) =>
            /\ "selectedTimeframe" \notin effectPending
            /\ \A sub \in activeIntervals.feed :
                   sub[1] = asset => sub[2] >= nextIntervalId - Len(MOCK_ASSETS)

\* C26: at every moment each asset has at most one active subscription of the
\* feed and there is at most one active target-line timer; when the effect
\* subscribes again every subscription made before is unsubscribed first, so
\* that no callback of an old subscription delivers a candle into the state
\* built for the new timeframe.
C26_AtMostOneSubscriptionAndTimer == []AtMostOneTimerEach /\ [][OldSubscriptionsGoneWhenResubscribed /\ OldCallbackNeverReachesNewState]_vars

\* the timeframe was changed, the effect has subscribed a second time, and a
\* candle of the new subscription was appended to the re-seeded history
C26_ResubscribedAfterTimeframeChange ==
    /\ selectedTimeframe # "1m"
    /\ effectPending = {}
    /\ nextIntervalId > 2 * Len(MOCK_ASSETS)
    /\ activeIntervals.target = 1
    /\ \E asset \in DOMAIN allAssetsData :
           /\ asset # MOCK_ASSETS[1]
           /\ Len(allAssetsData[asset].candleData) =
                  Len(getInitialCandleData(asset, CHART_DATA_LIMIT, selectedTimeframe)) + 1
           /\ \E sub \in activeIntervals.feed :
                  sub[1] = asset /\ sub[2] > Len(MOCK_ASSETS)

-----------------------------------------------------------------------------
(* handleSelectAsset in the monitor of all assets.                         *)

\* the selection of an asset, or the run of the effect the selection alone
\* has made pending
SelectionAndWhatItTriggers ==
    (\E asset \in Assets : handleSelectAsset(asset)) \/ EffectTriggeredBy("selectedAsset")

\* C27: handleSelectAsset changes only which asset is selected: the candle
\* history, indicator series, support/resistance pair, previous snapshot and
\* feed subscription of every asset, the pivot levels and the alert log are
\* after the selection and everything it triggers what they were before.
C27_SelectAssetChangesSelectionOnly ==
    [][SelectionAndWhatItTriggers =>
           /\ \A asset \in Assets :
                  /\ asset \in DOMAIN allAssetsData =>
                         /\ asset \in DOMAIN allAssetsData'
                         /\ allAssetsData'[asset] = allAssetsData[asset]
                  /\ asset \in DOMAIN previousIndicatorDataRef =>
                         /\ asset \in DOMAIN previousIndicatorDataRef'
                         /\ previousIndicatorDataRef'[asset] = previousIndicatorDataRef[asset]
                  /\ asset \in DOMAIN marketDataSubscriptions =>
                         /\ asset \in DOMAIN marketDataSubscriptions'
                         /\ marketDataSubscriptions'[asset] = marketDataSubscriptions[asset]
           /\ activeIntervals'.feed = activeIntervals.feed
           /\ targetLineValues' = targetLineValues
           /\ alerts' = alerts]_vars

\* the handler's own step keeps all of it: what changes it is the effect
SelectAssetStepKeepsEngineState ==
    [][(\E asset \in Assets : handleSelectAsset(asset)) =>
           UNCHANGED <<allAssetsData, previousIndicatorDataRef, marketDataSubscriptions,
                       activeIntervals, targetLineValues, alerts>>]_vars

-----------------------------------------------------------------------------
(* addAlert after a dismissal.                                             *)

\* the alerts the calculation effect submits to addAlert in this state
SubmittedByCalculation ==
    LET candleData == allAssetsData[selectedAsset].candleData
        calc == calculateAllIndicators(candleData)
    IN  AlertCandidatesSingle(candleData, calc.indicators[Len(calc.indicators)],
                              previousIndicatorDataRef[selectedAsset])

\* the calculation effect evaluates the rules
CalculationEvaluates ==
    /\ CalculationEffect
    /\ Len(allAssetsData[selectedAsset].candleData) > 0

\* a submitted alert is appended exactly if no alert of the log of now has
\* its (type, asset, timestamp), whatever was dismissed before
AcceptedAgainstCurrentLogOnly ==
    CalculationEvaluates =>
        /\ IsPrefix(alerts, alerts')
        /\ \A i \in 1..Len(SubmittedByCalculation) :
               LET newAlert == SubmittedByCalculation[i]
               IN  (\E k \in (Len(alerts) + 1)..Len(alerts') : alerts'[k] = newAlert)
                       <=> AlertKeyOf(newAlert) \notin AlertKeys(alerts)

\* a dismissal takes alerts out of the log and keeps no other trace of them
\* that addAlert reads
DismissalOnlyShortensLog ==
    dismissed' # dismissed =>
        /\ \A k \in dismissed' \ dismissed : k \in AlertKeys(alerts) /\ k \notin AlertKeys(alerts')
        /\ UNCHANGED <<allAssetsData, previousIndicatorDataRef>>

\* C28: addAlert compares a candidate with the log of now only, so after a
\* dismissal an alert with the same (type, asset, timestamp) is accepted and
\* appended again when the same candle is evaluated once more.
C28_DismissedAlertAcceptedAgain == [][AcceptedAgainstCurrentLogOnly /\ DismissalOnlyShortensLog]_vars

\* an alert of the log has the (type, asset, timestamp) of an alert that was
\* dismissed before: it came back with a second evaluation of its candle
C28_DismissedAlertReappeared ==
    /\ \E i \in 1..Len(alerts) : AlertKeyOf(alerts[i]) \in dismissed
    /\ selectedAsset \in DOMAIN allAssetsData
    /\ LET candleData == allAssetsData[selectedAsset].candleData
       IN  \A i \in 1..(Len(candleData) - 1) :
               candleData[i].timestamp < candleData[i + 1].timestamp

-----------------------------------------------------------------------------
(* A candle for an asset the map has no state of.                          *)

\* the callback of the feed runs for an asset that has no entry in the map:
\* the map, the previous snapshots and the log stay as they are, no rule is
\* evaluated (no candidate reaches addAlert) and the target-line interval
\* is not restarted
CandleWithoutStateDropped ==
    \A asset \in Assets :
        (CandleEvent(asset) /\ asset \notin DOMAIN allAssetsData) =>
            /\ UNCHANGED <<allAssetsData, previousIndicatorDataRef, alerts>>
            /\ UNCHANGED <<duplicateDropped, tickLeft, activeIntervals>>
            /\ candleDropped'

\* C29: a new-candle event for an asset that has no AssetState entry, as
\* between handleSelectTimeframe emptying the map and the next bootstrap, is
\* dropped: the asset map, the previous snapshots and the alert log are
\* unchanged and no rule is evaluated.
C29_CandleForUnknownAssetDropped == [][CandleWithoutStateDropped]_vars

\* a candle was dropped after a change of timeframe and the bootstrap has not
\* run yet: the map is still empty and so are the snapshots and the log
C29_CandleDroppedBeforeBootstrap ==
    /\ candleDropped
    /\ "selectedTimeframe" \in effectPending
    /\ allAssetsData = <<>>
    /\ previousIndicatorDataRef = <<>>
    /\ alerts = <<>>

=============================================================================
